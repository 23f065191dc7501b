---------------------------- MODULE FramesProofs ----------------------------
(***************************************************************************)
(* Theorems about one direction of a connection, for any set of writers,   *)
(* any number and size of frames, any number of reads, and either mode.    *)
(***************************************************************************)
EXTENDS Frames, FiniteSetTheorems, FunctionTheorems, TLAPS

\* Word n of frame f is among the first k words of the wire.
Passed(f, n, k) == \E i \in 1..k : wire[i] = Word(f, n)

\* What the writers keep: the words of a frame are on the wire, once, as far as
\* it was written; a frame that failed has closed the socket.
Placed == \A i \in 1..Len(wire) : wire[i].place <= written[wire[i].frame]
SentOnce ==
    \A i, j \in 1..Len(wire) : wire[i] = wire[j] /\ wire[i].place # 0 => i = j
SentOnWire ==
    \A f \in FrameIds : \A n \in 1..written[f] : n # 2 => Passed(f, n, Len(wire))
ReportedWhole ==
    \A f \in FrameIds : progress[f] = "reported" => written[f] = FrameLength(f)
FailedCloses == \A f \in FrameIds : progress[f] = "failed" => ~writerOpen

\* In the sync mode a frame is begun after the one before it, and so it is
\* completed after that one.
BegunInOrder ==
    mode = "sync" =>
        \A f \in FrameIds : f[2] > 1 /\ progress[f] # "none" =>
            progress[Previous(f)] \in {"reported", "failed"}
LastPassed(f, k) == Passed(f, FrameLength(f), k)
WireInOrder ==
    mode = "sync" =>
        \A i \in 1..Len(wire) : IsLast(wire[i]) /\ wire[i].frame[2] > 1 =>
            LastPassed(Previous(wire[i].frame), i - 1)

\* lasts lists the places of the last words.
LastsAre ==
    /\ \A k \in 1..Len(lasts) : IsLast(wire[lasts[k]])
    /\ \A k, m \in 1..Len(lasts) : k < m => lasts[k] < lasts[m]
    /\ \A i \in 1..Len(wire) : IsLast(wire[i]) => \E k \in 1..Len(lasts) : lasts[k] = i

WriterInv ==
    /\ Placed /\ SentOnce /\ SentOnWire /\ ReportedWhole /\ FailedCloses
    /\ BegunInOrder /\ WireInOrder /\ LastsAre

\* What the reads keep, in either mode: each word that was taken is with one
\* read, or it was delivered. The first word of a payload stands for its frame.
Holds(r, word) == \E n \in 1..Len(reads[r].got) : reads[r].got[n] = word
GotPassed ==
    \A r \in 1..Len(reads) : \A word \in WireWords :
        Holds(r, word) => \E i \in 1..pos : wire[i] = word
HeldOnce ==
    \A r, s \in 1..Len(reads) : \A f \in FrameIds :
        Holds(r, Word(f, 3)) /\ Holds(s, Word(f, 3)) => r = s
Delivered(f) == \E k \in 1..Len(received) : received[k] = f
Done(f) ==
    /\ Passed(f, 3, pos)
    /\ written[f] = FrameLength(f)
    /\ \A r \in 1..Len(reads) : ~Holds(r, Word(f, 3))
DeliveredPassed == \A f \in FrameIds : Delivered(f) => Done(f)
DeliveredOnce ==
    \A i, j \in 1..Len(received) :
        received[i] = received[j] /\ received[i] # Mixture => i = j

HeaderNeeds == \A r \in 1..Len(reads) : reads[r].part = "header" => reads[r].need = 2

ReaderInv == HeaderNeeds /\ GotPassed /\ HeldOnce /\ DeliveredPassed /\ DeliveredOnce

\* Where the frame begins that the reader is in: behind the last that it delivered.
Base == IF Len(received) = 0 THEN 0 ELSE lasts[Len(received)]
Current == wire[Base + 1].frame

\* What a read in the sync mode is, that is at the place where it should be.
HeaderAt(read) ==
    /\ read.part = "header" /\ read.need = 2 /\ Len(read.got) <= 2
    /\ pos = Base + Len(read.got)
    /\ \A n \in 1..Len(read.got) : read.got[n] = wire[Base + n]
PayloadAt(read) ==
    /\ read.part = "payload" /\ pos > Base /\ read.need = Size[Current]
    /\ Len(read.got) <= read.need
    /\ pos = Base + 2 + Len(read.got)
    /\ \A n \in 1..Len(read.got) : read.got[n] = wire[Base + 2 + n]

\* In the sync mode, as long as nothing is torn of what was read, the reader is
\* where it believes to be.
InStep ==
    /\ Len(received) <= Len(lasts)
    /\ \A k \in 1..Len(received) : received[k] = wire[lasts[k]].frame
    /\ Base <= pos
    /\ \A j \in 1..(pos - Base) : wire[Base + j] = Word(Current, j)
    /\ readerOpen /\ reads = <<>> => pos = Base
    /\ reads # <<>> => Len(reads) = 1 /\ (HeaderAt(reads[1]) \/ PayloadAt(reads[1]))
Aligned == mode = "sync" /\ Whole(pos) => InStep

\* The inductive invariant.
IInv == TypeOK /\ WriterInv /\ ReaderInv /\ Aligned

-----------------------------------------------------------------------------
(* Facts about sequences, frames and words.                                  *)

LEMMA HeadTail ==
    ASSUME NEW S, NEW s \in Seq(S), s # <<>>
    PROVE  /\ s[1] \in S /\ Tail(s) \in Seq(S) /\ Len(s) \in Nat \ {0}
           /\ Len(Tail(s)) = Len(s) - 1
           /\ \A i \in 1..(Len(s) - 1) : Tail(s)[i] = s[i + 1]
OBVIOUS

LEMMA Appended ==
    ASSUME NEW S, NEW s \in Seq(S), NEW x \in S
    PROVE  /\ Append(s, x) \in Seq(S)
           /\ Len(Append(s, x)) = Len(s) + 1
           /\ Append(s, x)[Len(s) + 1] = x
           /\ \A i \in 1..Len(s) : Append(s, x)[i] = s[i]
OBVIOUS

LEMMA TailAppended ==
    ASSUME NEW S, NEW s \in Seq(S), s # <<>>, NEW x \in S
    PROVE  /\ Append(Tail(s), x) \in Seq(S)
           /\ Len(Append(Tail(s), x)) = Len(s)
           /\ Append(Tail(s), x)[Len(s)] = x
           /\ \A i \in 1..(Len(s) - 1) : Append(Tail(s), x)[i] = s[i + 1]
<1> DEFINE t == Tail(s)
<1>1. /\ t \in Seq(S) /\ Len(s) \in Nat \ {0} /\ Len(t) = Len(s) - 1
      /\ \A i \in 1..(Len(s) - 1) : t[i] = s[i + 1]
  BY HeadTail
<1> HIDE DEF t
<1>2. /\ Append(t, x) \in Seq(S) /\ Len(Append(t, x)) = Len(t) + 1
      /\ Append(t, x)[Len(t) + 1] = x
      /\ \A i \in 1..Len(t) : Append(t, x)[i] = t[i]
  BY <1>1, Appended
<1>3. Len(t) + 1 = Len(s)
  BY <1>1
<1>4. Append(t, x)[Len(s)] = x
  BY <1>2, <1>3
<1> QED
  BY <1>1, <1>2, <1>3, <1>4 DEF t

\* The places of a sequence of length n.
LEMMA Split ==
    \A n \in Nat \ {0} : \A i \in 1..n :
        i = n \/ (i \in 1..(n - 1) /\ i + 1 \in 1..n /\ i + 1 # 1)
OBVIOUS

LEMMA PreviousFrame ==
    ASSUME Bounded, NEW f \in FrameIds, f[2] > 1
    PROVE  Previous(f) \in FrameIds /\ Previous(f) # f
<1>1. f[1] \in Writers /\ f[2] \in 1..MaxFrames /\ f = <<f[1], f[2]>>
  BY DEF FrameIds
<1>2. f[2] - 1 \in 1..MaxFrames /\ f[2] - 1 # f[2]
  BY <1>1 DEF Bounded
<1> QED
  BY <1>1, <1>2 DEF FrameIds, Previous

LEMMA NoMixture == ASSUME Bounded PROVE Mixture \notin FrameIds
BY DEF Bounded, FrameIds, Mixture

LEMMA Lengthy ==
    ASSUME Bounded, NEW f \in FrameIds
    PROVE  Size[f] \in Nat \ {0} /\ FrameLength(f) = Size[f] + 2 /\ FrameLength(f) \in Nat
           /\ FrameLength(f) >= 3
BY DEF Bounded, FrameLength

LEMMA WordType ==
    ASSUME NEW f \in FrameIds, NEW n \in Nat
    PROVE  Word(f, n) \in WireWords /\ Word(f, n).frame = f /\ Word(f, n).place = n
BY DEF Word, WireWords

\* A word on the wire is known by its frame and its place.
LEMMA OnWire ==
    ASSUME TypeOK, NEW i \in 1..Len(wire)
    PROVE  /\ wire[i] \in WireWords /\ wire[i].frame \in FrameIds /\ wire[i].place \in Nat
           /\ wire[i] = Word(wire[i].frame, wire[i].place)
<1>1. wire[i] \in WireWords
  BY DEF TypeOK
<1>2. ASSUME NEW c \in WireWords
      PROVE  c.frame \in FrameIds /\ c.place \in Nat /\ c = Word(c.frame, c.place)
  BY DEF WireWords, Word
<1> QED
  BY <1>1, <1>2

LEMMA ReadType ==
    ASSUME TypeOK, NEW r \in 1..Len(reads)
    PROVE  /\ reads[r] \in Reads /\ reads[r].part \in {"header", "payload"}
           /\ reads[r].need \in Nat /\ reads[r].got \in Seq(WireWords)
           /\ Len(reads[r].got) \in Nat
<1>1. reads[r] \in Reads
  BY DEF TypeOK
<1> QED
  BY <1>1 DEF Reads

\* A read that begins has got nothing.
LEMMA NewRead ==
    ASSUME NEW part \in {"header", "payload"}, NEW need \in Nat
    PROVE  /\ Read(part, need) \in Reads /\ Read(part, need).part = part
           /\ Read(part, need).need = need /\ Len(Read(part, need).got) = 0
<1>1. <<>> \in Seq(WireWords) /\ Len(<<>>) = 0
  OBVIOUS
<1> QED
  BY <1>1 DEF Read, Reads

-----------------------------------------------------------------------------
(* The types.                                                                *)

LEMMA InitType ==
    Bounded /\ Init /\ mode \in Modes /\ writerOpen = TRUE /\ readerOpen = TRUE => TypeOK
<1> SUFFICES ASSUME Bounded, Init, mode \in Modes, writerOpen = TRUE, readerOpen = TRUE
             PROVE  TypeOK
  OBVIOUS
<1>1. /\ <<>> \in Seq(WireWords) /\ <<>> \in Seq(Reads) /\ <<>> \in Seq(1..Len(wire))
      /\ <<>> \in Seq(FrameIds \cup {Mixture}) /\ Len(<<>>) = 0
  OBVIOUS
<1>2. progress \in [FrameIds -> {"none", "started", "reported", "failed"}]
  BY DEF Init
<1>3. written \in [FrameIds -> Nat] /\ \A f \in FrameIds : written[f] <= FrameLength(f)
  BY Lengthy DEF Init
<1>4. wire \in Seq(WireWords) /\ pos \in 0..Len(wire) /\ reads \in Seq(Reads)
  BY <1>1 DEF Init
<1>5. lasts \in Seq(1..Len(wire)) /\ received \in Seq(FrameIds \cup {Mixture})
  BY <1>1 DEF Init
<1> QED
  BY <1>2, <1>3, <1>4, <1>5 DEF TypeOK

\* What SendWord does.
LEMMA SentWord ==
    ASSUME Bounded, TypeOK, NEW f \in FrameIds, SendWord(f)
    PROVE  \E place \in Nat :
             /\ place = written[f] + 1 \/ (place = 0 /\ mode = "async" /\ written[f] = 1)
             /\ wire' = Append(wire, Word(f, place)) /\ wire' \in Seq(WireWords)
             /\ Len(wire) \in Nat /\ Len(wire') = Len(wire) + 1
             /\ wire'[Len(wire) + 1] = Word(f, place)
             /\ \A i \in 1..Len(wire) : wire'[i] = wire[i]
<1>1. written[f] \in Nat
  BY DEF TypeOK
<1>2. PICK place \in Places(f) : wire' = Append(wire, Word(f, place))
  BY DEF SendWord
<1>3. /\ place \in Nat
      /\ place = written[f] + 1 \/ (place = 0 /\ mode = "async" /\ written[f] = 1)
  BY <1>1, <1>2 DEF Places
<1>4. Word(f, place) \in WireWords /\ wire \in Seq(WireWords)
  BY <1>3, WordType DEF TypeOK
<1> QED
  BY <1>2, <1>3, <1>4, Appended

\* And the rest of it.
LEMMA SentRest ==
    ASSUME Bounded, TypeOK, NEW f \in FrameIds, SendWord(f)
    PROVE  /\ progress[f] = "started" /\ written[f] < FrameLength(f) /\ writerOpen
           /\ written' = [written EXCEPT ![f] = @ + 1] /\ written'[f] = written[f] + 1
           /\ \A g \in FrameIds : g # f => written'[g] = written[g]
           /\ UNCHANGED <<mode, progress, pos, reads, received, writerOpen, readerOpen>>
           /\ lasts' = IF written[f] + 1 = FrameLength(f) THEN Append(lasts, Len(wire) + 1)
                       ELSE lasts
BY DEF SendWord, TypeOK, reader, ends

LEMMA SendType ==
    ASSUME Bounded, TypeOK, NEW f \in FrameIds, SendWord(f)
    PROVE  TypeOK'
<1>1. wire' \in Seq(WireWords) /\ Len(wire) \in Nat /\ Len(wire') = Len(wire) + 1
  BY SentWord
<1>2. written[f] \in Nat /\ FrameLength(f) \in Nat
  BY Lengthy DEF TypeOK
<1>3. written' \in [FrameIds -> Nat] /\ \A g \in FrameIds : written'[g] <= FrameLength(g)
  <2>1. written' = [written EXCEPT ![f] = written[f] + 1] /\ written[f] + 1 \in Nat
    BY <1>2, SentRest
  <2>2. written'[f] <= FrameLength(f)
    BY <1>2, SentRest
  <2>3. \A g \in FrameIds : g # f => written'[g] = written[g]
    BY SentRest
  <2> QED
    BY <2>1, <2>2, <2>3 DEF TypeOK
<1>4. lasts' \in Seq(1..Len(wire'))
  <2>1. lasts \in Seq(1..Len(wire')) /\ Len(wire) + 1 \in 1..Len(wire')
    <3>1. 1..Len(wire) \subseteq 1..Len(wire') /\ Len(wire) + 1 \in 1..Len(wire')
      BY <1>1
    <3> QED
      BY <3>1 DEF TypeOK
  <2>2. Append(lasts, Len(wire) + 1) \in Seq(1..Len(wire'))
    BY <2>1, Appended
  <2> QED
    BY <2>1, <2>2, SentRest
<1>5. pos' \in 0..Len(wire')
  BY <1>1, SentRest DEF TypeOK
<1> QED
  BY <1>1, <1>3, <1>4, <1>5, SentRest DEF TypeOK

LEMMA WriterType ==
    ASSUME Bounded, TypeOK, NEW f \in FrameIds, BeginWrite(f) \/ WriteContinues(f)
    PROVE  TypeOK'
<1>1. CASE BeginWrite(f)
  BY <1>1 DEF BeginWrite, TypeOK, bytes, reader, ends
<1>2. CASE SendWord(f)
  BY <1>2, SendType
<1>3. CASE ReportWrite(f)
  BY <1>3 DEF ReportWrite, TypeOK, bytes, reader, ends
<1>4. CASE WriteFails(f)
  BY <1>4 DEF WriteFails, TypeOK, bytes, reader
<1> QED
  BY <1>1, <1>2, <1>3, <1>4 DEF WriteContinues

\* A read with one more word.
LEMMA Grown ==
    ASSUME TypeOK, reads # <<>>, pos < Len(wire), NEW read,
           read = [reads[1] EXCEPT !.got = Append(@, wire[pos + 1])]
    PROVE  /\ pos + 1 \in 1..Len(wire) /\ 1 \in 1..Len(reads)
           /\ read \in Reads /\ read.part = reads[1].part /\ read.need = reads[1].need
           /\ read.got = Append(reads[1].got, wire[pos + 1])
           /\ Len(read.got) = Len(reads[1].got) + 1
           /\ read.got[Len(reads[1].got) + 1] = wire[pos + 1]
           /\ \A n \in 1..Len(reads[1].got) : read.got[n] = reads[1].got[n]
<1>1. pos + 1 \in 1..Len(wire) /\ 1 \in 1..Len(reads)
  BY DEF TypeOK
<1>2. wire[pos + 1] \in WireWords
  BY <1>1, OnWire
<1>3. reads[1] \in Reads /\ reads[1].got \in Seq(WireWords)
  BY <1>1, ReadType
<1>4. /\ Append(reads[1].got, wire[pos + 1]) \in Seq(WireWords)
      /\ Len(Append(reads[1].got, wire[pos + 1])) = Len(reads[1].got) + 1
      /\ Append(reads[1].got, wire[pos + 1])[Len(reads[1].got) + 1] = wire[pos + 1]
      /\ \A n \in 1..Len(reads[1].got) :
           Append(reads[1].got, wire[pos + 1])[n] = reads[1].got[n]
  BY <1>2, <1>3, Appended
<1>5. /\ read.part = reads[1].part /\ read.need = reads[1].need
      /\ read.got = Append(reads[1].got, wire[pos + 1])
  BY <1>3 DEF Reads
<1>6. read \in Reads
  BY <1>3, <1>4 DEF Reads
<1> QED
  BY <1>1, <1>4, <1>5, <1>6

\* The length that a header announces is a number.
LEMMA AnnouncedLength ==
    ASSUME Bounded, TypeOK, HeaderNeeds, ReadHeader, NEW n \in Announced(Got[2])
    PROVE  n \in Nat
<1>1. CASE Got[2].place # 2
  BY <1>1 DEF Announced, Bounded
<1>2. CASE Got[2].place = 2
  <2>1. 1 \in 1..Len(reads) /\ Len(Got) = reads[1].need /\ reads[1].part = "header"
    BY HeadTail DEF ReadHeader, Complete, Got, TypeOK
  <2>2. reads[1].got \in Seq(WireWords) /\ reads[1].need = 2
    BY <2>1, ReadType DEF HeaderNeeds
  <2>3. Got[2] \in WireWords
    BY <2>1, <2>2 DEF Got
  <2>4. Got[2].frame \in FrameIds
    BY <2>3 DEF WireWords
  <2> QED
    BY <1>2, <2>4, Lengthy DEF Announced
<1> QED
  BY <1>1, <1>2

\* The reader disturbs pos, reads, received and its end of the connection.
LEMMA ReaderType ==
    ASSUME Bounded, TypeOK, HeaderNeeds, BeginRead \/ ReadContinues
    PROVE  TypeOK'
<1>1. CASE BeginRead
  <2>1. Read("header", 2) \in Reads
    BY NewRead
  <2>2. reads' \in Seq(Reads)
    BY <1>1, <2>1, Appended DEF BeginRead, TypeOK
  <2> QED
    BY <1>1, <2>2 DEF BeginRead, TypeOK, writer, bytes, ends
<1>2. CASE Receive
  <2> DEFINE read == [reads[1] EXCEPT !.got = Append(@, wire[pos + 1])]
  <2>1. reads # <<>> /\ pos < Len(wire) /\ pos' = pos + 1
    BY <1>2 DEF Receive
  <2>2. read \in Reads /\ pos + 1 \in 1..Len(wire) /\ 1 \in 1..Len(reads)
    BY <2>1, Grown
  <2>3. [reads EXCEPT ![1] = read] \in Seq(Reads)
    BY <2>2 DEF TypeOK
  <2>4. Append(Tail(reads), read) \in Seq(Reads)
    BY <2>1, <2>2, HeadTail, Appended DEF TypeOK
  <2>5. reads' \in Seq(Reads)
    BY <1>2, <2>3, <2>4 DEF Receive
  <2>6. pos' \in 0..Len(wire')
    BY <1>2, <2>1, <2>2 DEF Receive, TypeOK
  <2> QED
    BY <1>2, <2>5, <2>6 DEF Receive, TypeOK, writer, ends
<1>3. ASSUME UNCHANGED <<mode, writer, bytes, writerOpen>>, readerOpen' \in BOOLEAN,
             reads' \in Seq(Reads), received' \in Seq(FrameIds \cup {Mixture})
      PROVE  TypeOK'
  BY <1>3 DEF TypeOK, writer, bytes
<1>4. <<>> \in Seq(Reads)
  OBVIOUS
<1>5. reads # <<>> => Tail(reads) \in Seq(Reads) /\ 1 \in 1..Len(reads)
  BY HeadTail DEF TypeOK
<1>6. CASE ReadHeader
  <2>1. PICK n \in Announced(Got[2]) : reads' = Append(Tail(reads), Read("payload", n))
    BY <1>6 DEF ReadHeader
  <2>2. reads # <<>>
    BY <1>6 DEF ReadHeader, Complete
  <2>3. n \in Nat
    BY <1>6, <2>1, AnnouncedLength
  <2>4. reads' \in Seq(Reads)
    BY <1>5, <2>1, <2>2, <2>3, NewRead, Appended
  <2> QED
    BY <1>3, <1>6, <2>4 DEF ReadHeader, Complete, TypeOK
<1>7. ASSUME FailRead, UNCHANGED <<mode, writer, bytes, writerOpen>> PROVE TypeOK'
  BY <1>3, <1>4, <1>7 DEF FailRead, TypeOK
<1>8. CASE IncorrectMagic
  BY <1>7, <1>8 DEF IncorrectMagic, Complete
<1>9. CASE ReadError
  BY <1>7, <1>9 DEF ReadError
<1>10. CASE ReadPayload
  <2>1. PICK f \in FrameIds : received' = Append(received, f)
    BY <1>10 DEF ReadPayload
  <2>2. received' \in Seq(FrameIds \cup {Mixture})
    BY <2>1, Appended DEF TypeOK
  <2> QED
    BY <1>3, <1>5, <1>10, <2>2 DEF ReadPayload, Complete, TypeOK
<1>11. CASE ReadMixture
  <2>1. received' \in Seq(FrameIds \cup {Mixture})
    BY <1>11, Appended DEF ReadMixture, TypeOK
  <2> QED
    BY <1>3, <1>5, <1>11, <2>1 DEF ReadMixture, Complete, TypeOK
<1>12. ASSUME NEW ec, ReadNoJson(ec) PROVE TypeOK'
  BY <1>3, <1>5, <1>7, <1>12 DEF ReadNoJson, Complete, TypeOK
<1> QED
  BY <1>1, <1>2, <1>6, <1>8, <1>9, <1>10, <1>11, <1>12 DEF ReadContinues

-----------------------------------------------------------------------------
(* The writers.                                                              *)

LEMMA SendWriterInv ==
    ASSUME Bounded, TypeOK, WriterInv, NEW f \in FrameIds, SendWord(f)
    PROVE  WriterInv'
<1> DEFINE n == Len(wire)
           k == written[f] + 1
           L == FrameLength(f)
<1>1. PICK place \in Nat :
        /\ place = k \/ (place = 0 /\ mode = "async" /\ written[f] = 1)
        /\ n \in Nat /\ Len(wire') = n + 1 /\ wire'[n + 1] = Word(f, place)
        /\ \A i \in 1..n : wire'[i] = wire[i]
  BY SentWord
<1>2. /\ progress[f] = "started" /\ written[f] < L /\ writerOpen /\ written'[f] = k
      /\ \A g \in FrameIds : g # f => written'[g] = written[g]
      /\ UNCHANGED <<mode, progress, writerOpen>>
      /\ lasts' = IF k = L THEN Append(lasts, n + 1) ELSE lasts
  BY SentRest
<1>3. written[f] \in Nat /\ L \in Nat /\ L >= 3 /\ k \in Nat
  BY Lengthy DEF TypeOK
<1>4. wire'[n + 1].place = place /\ wire'[n + 1].frame = f
  BY <1>1, WordType
<1>5. \A i \in 1..n : /\ wire[i].frame \in FrameIds /\ wire[i].place \in Nat
                      /\ wire[i] = Word(wire[i].frame, wire[i].place)
  BY OnWire
<1>6. IsLast(wire'[n + 1]) <=> k = L
  BY <1>1, <1>2, <1>3, <1>4 DEF IsLast
<1>7. \A g \in FrameIds : written[g] \in Nat /\ written'[g] \in Nat /\ written[g] <= written'[g]
  <2>1. \A g \in FrameIds : written[g] \in Nat
    BY DEF TypeOK
  <2> QED
    BY <1>2, <1>3, <2>1
<1>8. Placed'
  <2>1. \A i \in 1..n : wire'[i].place <= written'[wire'[i].frame]
    BY <1>1, <1>5, <1>7 DEF WriterInv, Placed
  <2>2. wire'[n + 1].place <= written'[wire'[n + 1].frame]
    BY <1>1, <1>2, <1>3, <1>4
  <2> QED
    BY <1>1, <2>1, <2>2 DEF Placed
<1>9. SentOnce'
  <2>1. \A i \in 1..n : wire'[i] = wire'[n + 1] => wire'[i].place = 0
    <3> SUFFICES ASSUME NEW i \in 1..n, wire[i] = wire'[n + 1], place = k PROVE FALSE
      BY <1>1, <1>4
    <3>1. wire[i].place = k /\ wire[i].frame = f
      BY <1>4
    <3>2. wire[i].place <= written[f]
      BY <3>1 DEF WriterInv, Placed
    <3> QED
      BY <1>3, <3>1, <3>2
  <2>2. \A i, j \in 1..n : wire'[i] = wire'[j] /\ wire'[i].place # 0 => i = j
    BY <1>1 DEF WriterInv, SentOnce
  <2>3. \A i \in 1..(n + 1) : i = n + 1 \/ i \in 1..n
    BY <1>1
  <2> QED
    BY <1>1, <2>1, <2>2, <2>3 DEF SentOnce
<1>10. SentOnWire'
  <2> SUFFICES ASSUME NEW g \in FrameIds, NEW m \in 1..written'[g], m # 2
               PROVE  \E i \in 1..(n + 1) : wire'[i] = Word(g, m)
    BY <1>1 DEF SentOnWire, Passed
  <2>1. CASE m \in 1..written[g]
    <3>1. PICK i \in 1..n : wire[i] = Word(g, m)
      BY <2>1 DEF WriterInv, SentOnWire, Passed
    <3> QED
      BY <1>1, <3>1
  <2>2. CASE g = f /\ m = k
    <3>1. place = k
      BY <1>1, <1>3, <2>2
    <3> QED
      BY <1>1, <2>2, <3>1
  <2> QED
    BY <1>2, <1>3, <1>7, <2>1, <2>2
<1>11. ReportedWhole' /\ FailedCloses' /\ BegunInOrder'
  BY <1>2 DEF WriterInv, ReportedWhole, FailedCloses, BegunInOrder
<1>12. WireInOrder'
  <2> SUFFICES ASSUME mode = "sync", NEW i \in 1..(n + 1), IsLast(wire'[i]),
                      wire'[i].frame[2] > 1
               PROVE  \E j \in 1..(i - 1) :
                        LET g == Previous(wire'[i].frame) IN wire'[j] = Word(g, FrameLength(g))
    BY <1>1, <1>2 DEF WireInOrder, LastPassed, Passed
  <2>1. CASE i \in 1..n
    <3>1. IsLast(wire[i]) /\ wire[i].frame[2] > 1 /\ wire'[i] = wire[i]
      BY <1>1, <2>1
    <3>2. PICK j \in 1..(i - 1) :
            wire[j] = Word(Previous(wire[i].frame), FrameLength(Previous(wire[i].frame)))
      BY <2>1, <3>1 DEF WriterInv, WireInOrder, LastPassed, Passed
    <3>3. wire'[j] = wire[j]
      BY <1>1, <2>1
    <3> QED
      BY <3>1, <3>2, <3>3
  <2>2. CASE i = n + 1
    <3> DEFINE g == Previous(f)
    <3>1. g \in FrameIds /\ f[2] > 1
      BY <1>4, <2>2, PreviousFrame
    <3>2. progress[g] = "reported"
      BY <1>2, <3>1 DEF WriterInv, BegunInOrder, FailedCloses
    <3>3. written[g] = FrameLength(g) /\ FrameLength(g) \in Nat /\ FrameLength(g) >= 3
      BY <3>1, <3>2, Lengthy DEF WriterInv, ReportedWhole
    <3>4. PICK j \in 1..n : wire[j] = Word(g, FrameLength(g))
      <4>1. FrameLength(g) \in 1..written[g] /\ FrameLength(g) # 2
        BY <3>3
      <4> QED
        BY <3>1, <4>1 DEF WriterInv, SentOnWire, Passed
    <3> QED
      BY <1>1, <1>4, <2>2, <3>4
  <2> QED
    BY <1>1, <2>1, <2>2
<1>13. LastsAre'
  <2>0. \A m \in 1..Len(lasts) : lasts[m] \in 1..n
    BY DEF TypeOK
  <2>1. CASE k # L
    <3>1. lasts' = lasts
      BY <1>2, <2>1
    <3>2. \A m \in 1..Len(lasts) : IsLast(wire'[lasts[m]])
      BY <1>1, <2>0 DEF WriterInv, LastsAre
    <3>3. \A i \in 1..(n + 1) : IsLast(wire'[i]) => i \in 1..n /\ IsLast(wire[i])
      BY <1>1, <1>6, <2>1
    <3> QED
      BY <1>1, <3>1, <3>2, <3>3 DEF WriterInv, LastsAre
  <2>2. CASE k = L
    <3> DEFINE p == Len(lasts)
    <3>1. lasts \in Seq(Nat) /\ n + 1 \in Nat /\ lasts' = Append(lasts, n + 1)
      BY <1>1, <1>2, <2>2 DEF TypeOK
    <3>2. /\ p \in Nat /\ Len(lasts') = p + 1 /\ lasts'[p + 1] = n + 1
          /\ \A m \in 1..p : lasts'[m] = lasts[m]
      BY <3>1, Appended
    <3> HIDE DEF p
    <3>3. \A m \in 1..(p + 1) : m = p + 1 \/ m \in 1..p
      BY <3>2
    <3>4. \A m \in 1..p : IsLast(wire'[lasts'[m]]) /\ lasts'[m] < n + 1
      BY <1>1, <2>0, <3>2 DEF WriterInv, LastsAre, p
    <3>5. IsLast(wire'[lasts'[p + 1]])
      BY <1>6, <2>2, <3>2
    <3>6. \A l, m \in 1..(p + 1) : l < m => lasts'[l] < lasts'[m]
      <4>1. \A l, m \in 1..p : l < m => lasts'[l] < lasts'[m]
        BY <3>2 DEF WriterInv, LastsAre, p
      <4>2. \A m \in 1..(p + 1) : ~(p + 1 < m)
        BY <3>2
      <4> QED
        BY <3>2, <3>3, <3>4, <4>1, <4>2
    <3>7. \A i \in 1..(n + 1) : IsLast(wire'[i]) => \E m \in 1..(p + 1) : lasts'[m] = i
      <4> SUFFICES ASSUME NEW i \in 1..(n + 1), IsLast(wire'[i])
                   PROVE  \E m \in 1..(p + 1) : lasts'[m] = i
        OBVIOUS
      <4>1. CASE i = n + 1
        BY <3>2, <4>1
      <4>2. CASE i \in 1..n
        <5>1. PICK m \in 1..p : lasts[m] = i
          BY <1>1, <4>2 DEF WriterInv, LastsAre, p
        <5> QED
          BY <3>2, <5>1
      <4> QED
        BY <1>1, <4>1, <4>2
    <3> QED
      BY <1>1, <3>2, <3>3, <3>4, <3>5, <3>6, <3>7 DEF LastsAre
  <2> QED
    BY <2>1, <2>2
<1> QED
  BY <1>8, <1>9, <1>10, <1>11, <1>12, <1>13 DEF WriterInv

LEMMA WriterStepInv ==
    ASSUME Bounded, TypeOK, WriterInv, NEW f \in FrameIds, BeginWrite(f) \/ WriteContinues(f)
    PROVE  WriterInv'
<1>1. ASSUME UNCHANGED <<wire, lasts, written, mode>>, ReportedWhole', FailedCloses', BegunInOrder'
      PROVE  WriterInv'
  BY <1>1 DEF WriterInv, Placed, SentOnce, SentOnWire, WireInOrder, LastsAre, Passed, LastPassed
<1>2. CASE BeginWrite(f)
  <2>1. /\ UNCHANGED <<wire, lasts, written, mode, writerOpen>>
        /\ progress[f] = "none" /\ progress'[f] = "started"
        /\ \A g \in FrameIds : g # f => progress'[g] = progress[g]
        /\ f[2] > 1 => MayFollow(Previous(f))
    BY <1>2 DEF BeginWrite, TypeOK, bytes, ends
  <2>2. f[2] > 1 => Previous(f) \in FrameIds /\ Previous(f) # f
    BY PreviousFrame
  <2>3. BegunInOrder'
    BY <2>1, <2>2, PreviousFrame DEF WriterInv, BegunInOrder, MayFollow
  <2>4. ReportedWhole' /\ FailedCloses'
    BY <2>1 DEF WriterInv, ReportedWhole, FailedCloses
  <2> QED
    BY <1>1, <2>1, <2>3, <2>4
<1>3. CASE SendWord(f)
  BY <1>3, SendWriterInv
<1>4. ASSUME ReportWrite(f) \/ WriteFails(f) PROVE WriterInv'
  <2>1. /\ UNCHANGED <<wire, lasts, written, mode>>
        /\ \/ progress'[f] = "reported" /\ writerOpen' = writerOpen /\ written[f] = FrameLength(f)
           \/ progress'[f] = "failed" /\ writerOpen' = FALSE
        /\ progress[f] = "started"
        /\ \A g \in FrameIds : g # f => progress'[g] = progress[g]
    BY <1>4 DEF ReportWrite, WriteFails, TypeOK, bytes, ends
  <2>2. BegunInOrder'
    BY <2>1, PreviousFrame DEF WriterInv, BegunInOrder
  <2>3. ReportedWhole' /\ FailedCloses'
    BY <2>1 DEF WriterInv, ReportedWhole, FailedCloses
  <2> QED
    BY <1>1, <2>1, <2>2, <2>3
<1> QED
  BY <1>2, <1>3, <1>4 DEF WriteContinues

-----------------------------------------------------------------------------
(* The reads, in either mode.                                                *)

\* The words stay with their reads, which move up by d places or go.
LEMMA Moved ==
    ASSUME TypeOK, GotPassed, HeldOnce, UNCHANGED <<wire, pos>>, NEW d \in {0, 1},
           \A r \in 1..Len(reads') : \A word \in WireWords :
               Holds(r, word)' => r + d \in 1..Len(reads) /\ Holds(r + d, word)
    PROVE  GotPassed' /\ HeldOnce'
<1>1. GotPassed'
  BY DEF GotPassed
<1>2. HeldOnce'
  <2> SUFFICES ASSUME NEW r \in 1..Len(reads'), NEW s \in 1..Len(reads'), NEW f \in FrameIds,
                      Holds(r, Word(f, 3))', Holds(s, Word(f, 3))'
               PROVE  r = s
    BY DEF HeldOnce
  <2>1. Word(f, 3) \in WireWords
    BY WordType
  <2>2. r + d = s + d
    BY <2>1 DEF HeldOnce
  <2> QED
    BY <2>2
<1> QED
  BY <1>1, <1>2

LEMMA MovedDone ==
    ASSUME UNCHANGED <<wire, pos, written>>, NEW d \in {0, 1},
           \A r \in 1..Len(reads') : \A word \in WireWords :
               Holds(r, word)' => r + d \in 1..Len(reads) /\ Holds(r + d, word),
           NEW f \in FrameIds, Done(f)
    PROVE  Done(f)'
<1>1. Word(f, 3) \in WireWords
  BY WordType
<1>2. \A r \in 1..Len(reads') : ~Holds(r, Word(f, 3))'
  BY <1>1 DEF Done
<1> QED
  BY <1>2 DEF Done, Passed

\* What is left when the first read is taken away and one with nothing is added.
LEMMA TailMoves ==
    ASSUME TypeOK, reads # <<>>,
           \/ reads' = Tail(reads)
           \/ \E n \in Nat : reads' = Append(Tail(reads), Read("payload", n))
    PROVE  /\ \A r \in 1..Len(reads') : \A word \in WireWords :
                Holds(r, word)' => r + 1 \in 1..Len(reads) /\ Holds(r + 1, word)
           /\ HeaderNeeds => HeaderNeeds'
<1> DEFINE R == Len(reads)
<1>1. /\ R \in Nat \ {0} /\ Len(Tail(reads)) = R - 1 /\ Tail(reads) \in Seq(Reads)
      /\ \A r \in 1..(R - 1) : Tail(reads)[r] = reads[r + 1]
  BY HeadTail DEF TypeOK
<1>2. CASE reads' = Tail(reads)
  BY <1>1, <1>2 DEF Holds, HeaderNeeds
<1>3. ASSUME NEW n \in Nat, reads' = Append(Tail(reads), Read("payload", n))
      PROVE  /\ \A r \in 1..Len(reads') : \A word \in WireWords :
                  Holds(r, word)' => r + 1 \in 1..Len(reads) /\ Holds(r + 1, word)
             /\ HeaderNeeds => HeaderNeeds'
  <2>1. /\ Len(reads') = R /\ reads'[R] = Read("payload", n)
        /\ \A r \in 1..(R - 1) : reads'[r] = reads[r + 1]
    <3>1. Read("payload", n) \in Reads /\ reads \in Seq(Reads)
      BY NewRead DEF TypeOK
    <3> QED
      BY <1>3, <3>1, TailAppended
  <2>2. \A r \in 1..R : r = R \/ (r \in 1..(R - 1) /\ r + 1 \in 1..R)
    BY <1>1, Split
  <2>3. reads'[R].part = "payload" /\ Len(reads'[R].got) = 0
    BY <2>1, NewRead
  <2>4. ASSUME NEW r \in 1..Len(reads'), NEW word \in WireWords, Holds(r, word)'
        PROVE  r + 1 \in 1..Len(reads) /\ Holds(r + 1, word)
    <3>1. r \in 1..R /\ r # R
      BY <2>1, <2>3, <2>4 DEF Holds
    <3>2. reads'[r] = reads[r + 1] /\ r + 1 \in 1..R
      BY <2>1, <2>2, <3>1
    <3> QED
      BY <2>4, <3>2 DEF Holds
  <2>5. HeaderNeeds => HeaderNeeds'
    BY <2>1, <2>2, <2>3 DEF HeaderNeeds
  <2> QED
    BY <2>4, <2>5
<1> QED
  BY <1>2, <1>3

\* The first read gets the next word and stays where it is or goes behind.
LEMMA Moves ==
    ASSUME TypeOK, HeaderNeeds, Receive
    PROVE  /\ pos + 1 \in 1..Len(wire) /\ pos \in Nat /\ pos' = pos + 1
           /\ UNCHANGED <<mode, wire, lasts, written, received, readerOpen>>
           /\ HeaderNeeds'
           /\ Len(reads') = Len(reads)
           /\ \E p \in [1..Len(reads) -> 1..Len(reads)] :
                /\ \A r, s \in 1..Len(reads) : p[r] = p[s] => r = s
                /\ \A r \in 1..Len(reads) : \A word \in WireWords :
                     Holds(r, word)' => \/ Holds(p[r], word)
                                        \/ p[r] = 1 /\ word = wire[pos + 1]
<1> DEFINE read == [reads[1] EXCEPT !.got = Append(@, wire[pos + 1])]
           R == Len(reads)
<1>1. reads # <<>> /\ pos < Len(wire) /\ pos' = pos + 1
  BY DEF Receive
<1>2. /\ pos + 1 \in 1..Len(wire) /\ 1 \in 1..R
      /\ read \in Reads /\ read.part = reads[1].part /\ read.need = reads[1].need
      /\ Len(read.got) = Len(reads[1].got) + 1
      /\ read.got[Len(reads[1].got) + 1] = wire[pos + 1]
      /\ \A n \in 1..Len(reads[1].got) : read.got[n] = reads[1].got[n]
  BY <1>1, Grown
<1>3. /\ R \in Nat \ {0} /\ Len(Tail(reads)) = R - 1 /\ Tail(reads) \in Seq(Reads)
      /\ \A r \in 1..(R - 1) : Tail(reads)[r] = reads[r + 1]
  BY <1>1, HeadTail DEF TypeOK
<1>4. \/ reads' = [reads EXCEPT ![1] = read]
      \/ reads' = Append(Tail(reads), read)
  BY DEF Receive
<1>5. ASSUME NEW r \in 1..R, reads'[r] = read, NEW word \in WireWords, Holds(r, word)'
      PROVE  Holds(1, word) \/ word = wire[pos + 1]
  <2>1. Len(reads[1].got) \in Nat
    BY <1>2, ReadType
  <2>2. PICK n \in 1..(Len(reads[1].got) + 1) : read.got[n] = word
    BY <1>2, <1>5 DEF Holds
  <2>3. n = Len(reads[1].got) + 1 \/ n \in 1..Len(reads[1].got)
    BY <2>1
  <2> QED
    BY <1>2, <2>2, <2>3 DEF Holds
<1>6. pos \in Nat /\ UNCHANGED <<mode, wire, lasts, written, received, readerOpen>>
  BY DEF Receive, TypeOK, writer, ends
<1> HIDE DEF read
<1>7. CASE reads' = [reads EXCEPT ![1] = read]
  <2>1. Len(reads') = R /\ reads'[1] = read /\ \A r \in 1..R : r # 1 => reads'[r] = reads[r]
    BY <1>2, <1>7 DEF TypeOK
  <2>2. HeaderNeeds'
    BY <1>2, <2>1 DEF HeaderNeeds
  <2> DEFINE p == [r \in 1..R |-> r]
  <2>3. p \in [1..R -> 1..R] /\ \A r, s \in 1..R : p[r] = p[s] => r = s
    OBVIOUS
  <2>4. ASSUME NEW r \in 1..R, NEW word \in WireWords, Holds(r, word)'
        PROVE  Holds(p[r], word) \/ (p[r] = 1 /\ word = wire[pos + 1])
    <3>1. CASE r = 1
      BY <1>5, <2>1, <2>4, <3>1
    <3>2. CASE r # 1
      BY <2>1, <2>4, <3>2 DEF Holds
    <3> QED
      BY <3>1, <3>2
  <2> QED
    BY <1>1, <1>2, <1>6, <2>1, <2>2, <2>3, <2>4
<1>8. CASE reads' = Append(Tail(reads), read)
  <2>1. /\ Len(reads') = R /\ reads'[R] = read
        /\ \A r \in 1..(R - 1) : reads'[r] = reads[r + 1]
    BY <1>1, <1>2, <1>8, TailAppended DEF TypeOK
  <2>2. \A r \in 1..R : r = R \/ (r \in 1..(R - 1) /\ r + 1 \in 1..R /\ r + 1 # 1)
    BY <1>3, Split
  <2>3. HeaderNeeds'
    BY <1>2, <2>1, <2>2 DEF HeaderNeeds
  <2> DEFINE p == [r \in 1..R |-> IF r = R THEN 1 ELSE r + 1]
  <2>4. p \in [1..R -> 1..R]
    BY <1>3
  <2>5. \A r, s \in 1..R : p[r] = p[s] => r = s
    <3> SUFFICES ASSUME NEW r \in 1..R, NEW s \in 1..R, p[r] = p[s] PROVE r = s
      OBVIOUS
    <3>1. CASE r = R \/ s = R
      BY <2>2, <3>1
    <3>2. CASE r # R /\ s # R
      <4>1. r + 1 = s + 1
        BY <3>2
      <4> QED
        BY <4>1
    <3> QED
      BY <3>1, <3>2
  <2>6. ASSUME NEW r \in 1..R, NEW word \in WireWords, Holds(r, word)'
        PROVE  Holds(p[r], word) \/ (p[r] = 1 /\ word = wire[pos + 1])
    <3>1. CASE r = R
      BY <1>5, <2>1, <2>6, <3>1
    <3>2. CASE r # R
      <4>1. reads'[r] = reads[r + 1] /\ p[r] = r + 1
        BY <2>1, <2>2, <3>2
      <4> QED
        BY <2>6, <4>1 DEF Holds
    <3> QED
      BY <3>1, <3>2
  <2> QED
    BY <1>1, <1>2, <1>6, <2>1, <2>3, <2>4, <2>5, <2>6
<1> QED
  BY <1>4, <1>7, <1>8

\* A word that is taken was with no read and in no frame that was delivered.
LEMMA ReceiveInv ==
    ASSUME Bounded, TypeOK, WriterInv, ReaderInv, Receive
    PROVE  ReaderInv'
<1> DEFINE R == Len(reads)
           x == wire[pos + 1]
<1>1. /\ pos + 1 \in 1..Len(wire) /\ pos \in Nat /\ pos' = pos + 1
      /\ UNCHANGED <<wire, written, received>> /\ HeaderNeeds' /\ Len(reads') = R
  BY Moves DEF ReaderInv
<1>2. PICK p \in [1..R -> 1..R] :
        /\ \A r, s \in 1..R : p[r] = p[s] => r = s
        /\ \A r \in 1..R : \A word \in WireWords :
             Holds(r, word)' => Holds(p[r], word) \/ (p[r] = 1 /\ word = x)
  BY Moves DEF ReaderInv
<1>3. \A f \in FrameIds : Word(f, 3) \in WireWords /\ Word(f, 3).place = 3
  BY WordType
<1>4. \A f \in FrameIds : x = Word(f, 3) => ~Passed(f, 3, pos)
  <2> SUFFICES ASSUME NEW f \in FrameIds, x = Word(f, 3), NEW i \in 1..pos, wire[i] = x
               PROVE  FALSE
    BY DEF Passed
  <2>1. i \in 1..Len(wire) /\ wire[i].place # 0
    BY <1>1, <1>3
  <2>2. i = pos + 1
    BY <1>1, <2>1 DEF WriterInv, SentOnce
  <2> QED
    BY <1>1, <2>2
<1>5. \A f \in FrameIds : x = Word(f, 3) => \A r \in 1..R : ~Holds(r, x)
  BY <1>3, <1>4 DEF ReaderInv, GotPassed, Passed
<1>6. GotPassed'
  <2> SUFFICES ASSUME NEW r \in 1..R, NEW word \in WireWords, Holds(r, word)'
               PROVE  \E i \in 1..(pos + 1) : wire[i] = word
    BY <1>1 DEF GotPassed
  <2>1. CASE word = x
    BY <1>1, <2>1
  <2>2. CASE Holds(p[r], word)
    <3>1. PICK i \in 1..pos : wire[i] = word
      BY <2>2 DEF ReaderInv, GotPassed
    <3> QED
      BY <1>1, <3>1
  <2> QED
    BY <1>2, <2>1, <2>2
<1>7. HeldOnce'
  <2> SUFFICES ASSUME NEW r \in 1..R, NEW s \in 1..R, NEW f \in FrameIds,
                      Holds(r, Word(f, 3))', Holds(s, Word(f, 3))'
               PROVE  p[r] = p[s]
    BY <1>1, <1>2 DEF HeldOnce
  <2>1. CASE x = Word(f, 3)
    <3>1. p[r] = 1 /\ p[s] = 1
      BY <1>2, <1>3, <1>5, <2>1
    <3> QED
      BY <3>1
  <2>2. CASE x # Word(f, 3)
    <3>1. Holds(p[r], Word(f, 3)) /\ Holds(p[s], Word(f, 3))
      BY <1>2, <1>3, <2>2
    <3> QED
      BY <3>1 DEF ReaderInv, HeldOnce
  <2> QED
    BY <2>1, <2>2
<1>8. DeliveredPassed'
  <2> SUFFICES ASSUME NEW f \in FrameIds, Done(f) PROVE Done(f)'
    BY <1>1 DEF ReaderInv, DeliveredPassed, Delivered
  <2>1. Passed(f, 3, pos) /\ written[f] = FrameLength(f) /\ \A r \in 1..R : ~Holds(r, Word(f, 3))
    BY DEF Done
  <2>2. x # Word(f, 3)
    BY <1>4, <2>1
  <2>3. Passed(f, 3, pos + 1)
    BY <1>1, <2>1 DEF Passed
  <2>4. \A r \in 1..R : ~Holds(r, Word(f, 3))'
    BY <1>2, <1>3, <2>1, <2>2
  <2> QED
    BY <1>1, <2>1, <2>3, <2>4 DEF Done, Passed
<1>9. DeliveredOnce'
  BY <1>1 DEF ReaderInv, DeliveredOnce
<1> QED
  BY <1>1, <1>6, <1>7, <1>8, <1>9 DEF ReaderInv

\* A whole payload: it was sent, and it was not delivered before.
LEMMA ReadPayloadInv ==
    ASSUME Bounded, TypeOK, WriterInv, ReaderInv, ReadPayload
    PROVE  ReaderInv'
<1> DEFINE k == Len(received) + 1
<1>1. PICK f \in FrameIds : Got = Payload(f) /\ received' = Append(received, f)
  BY DEF ReadPayload
<1>2. /\ reads # <<>> /\ 1 \in 1..Len(reads) /\ reads' = Tail(reads)
      /\ UNCHANGED <<wire, pos, written>>
  BY HeadTail DEF ReadPayload, Complete, TypeOK, writer, bytes
<1>3. /\ k \in Nat \ {0} /\ Len(received') = k /\ received'[k] = f
      /\ \A i \in 1..(k - 1) : received'[i] = received[i]
  <2>1. received \in Seq(FrameIds \cup {Mixture}) /\ f \in FrameIds \cup {Mixture}
    BY DEF TypeOK
  <2> QED
    BY <1>1, <2>1, Appended
<1>4. /\ \A r \in 1..Len(reads') : \A word \in WireWords :
           Holds(r, word)' => r + 1 \in 1..Len(reads) /\ Holds(r + 1, word)
      /\ HeaderNeeds'
  BY <1>2, TailMoves DEF ReaderInv
<1>5. GotPassed' /\ HeldOnce'
  BY <1>2, <1>4, Moved DEF ReaderInv
<1>6. \A n \in 1..Size[f] : Holds(1, Word(f, n + 2))
  <2>1. reads[1].got = [n \in 1..Size[f] |-> Word(f, n + 2)]
    BY <1>1 DEF Got, Payload
  <2>2. reads[1].got \in Seq(WireWords) /\ Size[f] \in Nat
    BY <1>2, ReadType, Lengthy
  <2>3. Len(reads[1].got) = Size[f]
    BY <2>1, <2>2
  <2> QED
    BY <2>1, <2>3 DEF Holds
<1>7. Size[f] \in Nat \ {0} /\ FrameLength(f) = Size[f] + 2
  BY Lengthy
<1>8. Holds(1, Word(f, 3)) /\ Holds(1, Word(f, FrameLength(f)))
  <2>1. 1 \in 1..Size[f] /\ Size[f] \in 1..Size[f] /\ 1 + 2 = 3
    BY <1>7
  <2> QED
    BY <1>6, <1>7, <2>1
<1>9. /\ Word(f, 3) \in WireWords /\ Word(f, FrameLength(f)) \in WireWords
      /\ Word(f, FrameLength(f)).place = FrameLength(f)
      /\ Word(f, FrameLength(f)).frame = f
  BY <1>7, WordType
<1>10. Passed(f, 3, pos)
  BY <1>2, <1>8, <1>9 DEF ReaderInv, GotPassed, Passed
<1>11. written[f] = FrameLength(f)
  <2>1. PICK i \in 1..pos : wire[i] = Word(f, FrameLength(f))
    BY <1>2, <1>8, <1>9 DEF ReaderInv, GotPassed
  <2>2. i \in 1..Len(wire)
    BY <2>1 DEF TypeOK
  <2>3. FrameLength(f) <= written[f]
    BY <1>9, <2>1, <2>2 DEF WriterInv, Placed
  <2>4. written[f] <= FrameLength(f) /\ written[f] \in Nat
    BY DEF TypeOK
  <2> QED
    BY <1>7, <2>3, <2>4
<1>12. \A i \in 1..(k - 1) : received[i] # f
  BY <1>2, <1>8 DEF ReaderInv, DeliveredPassed, Delivered, Done
<1>13. \A r \in 1..Len(reads') : ~Holds(r, Word(f, 3))'
  <2> SUFFICES ASSUME NEW r \in 1..Len(reads'), Holds(r, Word(f, 3))' PROVE FALSE
    OBVIOUS
  <2>1. r + 1 \in 1..Len(reads) /\ Holds(r + 1, Word(f, 3))
    BY <1>4, <1>9
  <2>2. r + 1 = 1
    BY <1>2, <1>8, <2>1 DEF ReaderInv, HeldOnce
  <2> QED
    BY <2>2
<1>14. DeliveredPassed'
  <2> SUFFICES ASSUME NEW g \in FrameIds, Delivered(g)' PROVE Done(g)'
    BY DEF DeliveredPassed
  <2>1. CASE g = f
    BY <1>2, <1>10, <1>11, <1>13, <2>1 DEF Done, Passed
  <2>2. CASE g # f
    <3>1. PICK i \in 1..k : received'[i] = g
      BY <1>3 DEF Delivered
    <3>2. i \in 1..(k - 1)
      BY <1>3, <2>2, <3>1
    <3>3. Delivered(g)
      BY <1>3, <3>1, <3>2 DEF Delivered
    <3> QED
      BY <1>2, <1>4, <3>3, MovedDone DEF ReaderInv, DeliveredPassed
  <2> QED
    BY <2>1, <2>2
<1>15. DeliveredOnce'
  <2>1. \A i \in 1..k : i = k \/ i \in 1..(k - 1)
    BY <1>3
  <2> QED
    BY <1>3, <1>12, <2>1 DEF ReaderInv, DeliveredOnce
<1> QED
  BY <1>4, <1>5, <1>14, <1>15 DEF ReaderInv

\* The other steps of the reader deliver no frame.
LEMMA ReaderStepInv ==
    ASSUME Bounded, TypeOK, WriterInv, ReaderInv, BeginRead \/ ReadContinues
    PROVE  ReaderInv'
<1>1. ASSUME UNCHANGED <<wire, pos, written, received>>, NEW d \in {0, 1}, HeaderNeeds',
             \A r \in 1..Len(reads') : \A word \in WireWords :
                 Holds(r, word)' => r + d \in 1..Len(reads) /\ Holds(r + d, word)
      PROVE  ReaderInv'
  <2>1. GotPassed' /\ HeldOnce'
    BY <1>1, Moved DEF ReaderInv
  <2>2. DeliveredPassed'
    BY <1>1, MovedDone DEF ReaderInv, DeliveredPassed, Delivered
  <2>3. DeliveredOnce'
    BY <1>1 DEF ReaderInv, DeliveredOnce
  <2> QED
    BY <1>1, <2>1, <2>2, <2>3 DEF ReaderInv
<1>2. ASSUME UNCHANGED <<wire, pos, written, received>>, reads' = <<>>
      PROVE  ReaderInv'
  <2>1. HeaderNeeds' /\ Len(reads') = 0
    BY <1>2 DEF HeaderNeeds
  <2> QED
    BY <1>1, <1>2, <2>1
<1>3. ASSUME UNCHANGED <<wire, pos, written, received>>, reads # <<>>,
             \/ reads' = Tail(reads)
             \/ \E n \in Nat : reads' = Append(Tail(reads), Read("payload", n))
      PROVE  ReaderInv'
  <2>1. /\ \A r \in 1..Len(reads') : \A word \in WireWords :
             Holds(r, word)' => r + 1 \in 1..Len(reads) /\ Holds(r + 1, word)
        /\ HeaderNeeds'
    BY <1>3, TailMoves DEF ReaderInv
  <2> QED
    BY <1>1, <1>3, <2>1
<1>4. CASE BeginRead
  <2> DEFINE R == Len(reads)
  <2>1. /\ R \in Nat /\ Len(reads') = R + 1 /\ reads'[R + 1] = Read("header", 2)
        /\ \A r \in 1..R : reads'[r] = reads[r]
    <3>1. reads \in Seq(Reads) /\ Read("header", 2) \in Reads /\ reads' = Append(reads, Read("header", 2))
      BY <1>4, NewRead DEF BeginRead, TypeOK
    <3> QED
      BY <3>1, Appended
  <2>2. Len(reads'[R + 1].got) = 0 /\ reads'[R + 1].need = 2
    BY <2>1, NewRead
  <2>3. \A r \in 1..(R + 1) : r = R + 1 \/ r \in 1..R
    BY <2>1
  <2>4. HeaderNeeds'
    BY <2>1, <2>2, <2>3 DEF ReaderInv, HeaderNeeds
  <2>5. \A r \in 1..Len(reads') : \A word \in WireWords :
          Holds(r, word)' => r + 0 \in 1..Len(reads) /\ Holds(r + 0, word)
    BY <2>1, <2>2, <2>3 DEF Holds
  <2>6. UNCHANGED <<wire, pos, written, received>>
    BY <1>4 DEF BeginRead, writer, bytes
  <2> QED
    BY <1>1, <2>4, <2>5, <2>6
<1>5. CASE Receive
  BY <1>5, ReceiveInv
<1>6. CASE ReadHeader
  <2>1. PICK n \in Announced(Got[2]) : reads' = Append(Tail(reads), Read("payload", n))
    BY <1>6 DEF ReadHeader
  <2>2. reads # <<>> /\ UNCHANGED <<wire, pos, written, received>>
    BY <1>6 DEF ReadHeader, Complete, writer, bytes
  <2>3. n \in Nat
    BY <1>6, <2>1, AnnouncedLength DEF ReaderInv
  <2> QED
    BY <1>3, <2>1, <2>2, <2>3
<1>7. CASE IncorrectMagic \/ ReadError
  BY <1>2, <1>7 DEF IncorrectMagic, ReadError, Complete, FailRead, writer, bytes
<1>8. CASE ReadPayload
  BY <1>8, ReadPayloadInv
<1>9. CASE ReadMixture
  <2>1. reads # <<>> /\ reads' = Tail(reads) /\ UNCHANGED <<wire, pos, written>>
    BY <1>9 DEF ReadMixture, Complete, writer, bytes
  <2> DEFINE k == Len(received) + 1
  <2>2. /\ k \in Nat \ {0} /\ Len(received') = k /\ received'[k] = Mixture
        /\ \A i \in 1..(k - 1) : received'[i] = received[i]
    <3>1. /\ received \in Seq(FrameIds \cup {Mixture}) /\ Mixture \in FrameIds \cup {Mixture}
          /\ received' = Append(received, Mixture)
      BY <1>9 DEF ReadMixture, TypeOK
    <3> QED
      BY <3>1, Appended
  <2>3. \A i \in 1..k : i = k \/ i \in 1..(k - 1)
    BY <2>2
  <2>4. /\ \A r \in 1..Len(reads') : \A word \in WireWords :
             Holds(r, word)' => r + 1 \in 1..Len(reads) /\ Holds(r + 1, word)
        /\ HeaderNeeds'
    BY <2>1, TailMoves DEF ReaderInv
  <2>5. GotPassed' /\ HeldOnce'
    BY <2>1, <2>4, Moved DEF ReaderInv
  <2>6. DeliveredPassed'
    <3> SUFFICES ASSUME NEW g \in FrameIds, Delivered(g)' PROVE Done(g)'
      BY DEF DeliveredPassed
    <3>1. Delivered(g)
      BY <2>2, <2>3, NoMixture DEF Delivered
    <3> QED
      BY <2>1, <2>4, <3>1, MovedDone DEF ReaderInv, DeliveredPassed
  <2>7. DeliveredOnce'
    BY <2>2, <2>3 DEF ReaderInv, DeliveredOnce
  <2> QED
    BY <2>4, <2>5, <2>6, <2>7 DEF ReaderInv
<1>10. ASSUME NEW ec, ReadNoJson(ec) PROVE ReaderInv'
  BY <1>2, <1>3, <1>10 DEF ReadNoJson, Complete, FailRead, writer, bytes
<1> QED
  BY <1>4, <1>5, <1>6, <1>7, <1>8, <1>9, <1>10 DEF ReadContinues

-----------------------------------------------------------------------------
(* The reader in the sync mode.                                              *)

\* Whether the words are whole depends on them only.
LEMMA WholeIs ==
    ASSUME NEW n \in Nat, pos' \in Nat, n <= pos', Whole(pos)',
           \A i \in 1..n : wire'[i] = wire[i]
    PROVE  Whole(n)
<1>1. \A i \in 1..n : i \in 1..pos' /\ (i # 1 => i - 1 \in 1..n)
  OBVIOUS
<1> QED
  BY <1>1 DEF Whole, Follows, IsLast

\* Where the reader is, when it is in step.
LEMMA WhereIs ==
    ASSUME Bounded, TypeOK, InStep
    PROVE  /\ Base \in Nat /\ pos \in Nat /\ pos - Base \in Nat /\ Len(received) \in Nat
           /\ pos > Base => /\ Base + 1 \in 1..Len(wire) /\ Current \in FrameIds
                            /\ wire[pos] = Word(Current, pos - Base) /\ pos \in 1..Len(wire)
<1>1. Len(received) \in Nat /\ pos \in 0..Len(wire) /\ Len(wire) \in Nat
  BY DEF TypeOK
<1>2. Base \in Nat
  BY <1>1 DEF InStep, Base, TypeOK
<1>3. Base <= pos
  BY DEF InStep
<1>4. ASSUME pos > Base
      PROVE  /\ Base + 1 \in 1..Len(wire) /\ Current \in FrameIds
             /\ wire[pos] = Word(Current, pos - Base) /\ pos \in 1..Len(wire)
  <2>1. Base + 1 \in 1..Len(wire) /\ pos \in 1..Len(wire)
    BY <1>1, <1>2, <1>4
  <2>2. Current \in FrameIds
    BY <2>1, OnWire DEF Current
  <2>3. pos - Base \in 1..(pos - Base) /\ Base + (pos - Base) = pos
    BY <1>1, <1>2, <1>4
  <2>4. wire[Base + (pos - Base)] = Word(Current, pos - Base)
    BY <2>3 DEF InStep
  <2> QED
    BY <2>1, <2>2, <2>3, <2>4
<1> QED
  BY <1>1, <1>2, <1>3, <1>4

\* The next word is the next of the frame that the reader is in, or the first
\* of a frame.
LEMMA NextWord ==
    ASSUME Bounded, TypeOK, WriterInv, InStep, NEW n \in Nat, n = pos + 1, n \in 1..Len(wire),
           Whole(n), pos > Base => pos - Base < FrameLength(Current)
    PROVE  wire[n] = Word(Current, n - Base)
<1>1. /\ Base \in Nat /\ pos \in Nat /\ pos - Base \in Nat /\ Len(received) \in Nat
      /\ pos > Base => /\ Base + 1 \in 1..Len(wire) /\ Current \in FrameIds
                       /\ wire[pos] = Word(Current, pos - Base) /\ pos \in 1..Len(wire)
  BY WhereIs
<1>2. IF n = 1 THEN wire[1].place = 1 ELSE Follows(wire[pos], wire[n])
  BY <1>1 DEF Whole
<1>3. wire[n] = Word(wire[n].frame, wire[n].place)
  BY OnWire
<1>4. CASE pos > Base
  <2>1. n # 1 /\ pos - Base + 1 = n - Base
    BY <1>1, <1>4
  <2>2. wire[pos].frame = Current /\ wire[pos].place = pos - Base
    BY <1>1, <1>4, WordType
  <2>3. ~IsLast(wire[pos])
    BY <1>1, <1>4, <2>2, Lengthy DEF IsLast
  <2> QED
    BY <1>2, <2>1, <2>2, <2>3 DEF Follows
<1>5. CASE pos = Base
  <2>1. n = Base + 1 /\ n - Base = 1 /\ Current = wire[n].frame
    BY <1>1, <1>5 DEF Current
  <2>2. CASE Len(received) = 0
    <3>1. n = 1
      BY <2>1, <2>2 DEF Base
    <3> QED
      BY <1>2, <1>3, <2>1, <3>1
  <2>3. CASE Len(received) # 0
    <3>1. Len(received) \in 1..Len(lasts) /\ Base = lasts[Len(received)]
      BY <1>1, <2>3 DEF InStep, Base
    <3>2. IsLast(wire[pos]) /\ Base \in 1..Len(wire)
      BY <1>5, <3>1 DEF WriterInv, LastsAre, TypeOK
    <3>3. n # 1
      BY <1>5, <3>2
    <3> QED
      BY <1>2, <2>1, <3>2, <3>3 DEF Follows
  <2> QED
    BY <2>2, <2>3
<1> QED
  BY <1>1, <1>4, <1>5 DEF InStep

LEMMA ReceiveAligned ==
    ASSUME Bounded, TypeOK, WriterInv, ReaderInv, Aligned, Receive
    PROVE  Aligned'
<1> SUFFICES ASSUME mode = "sync", Whole(pos)' PROVE InStep'
  BY Moves DEF ReaderInv, Aligned
<1> DEFINE n == pos + 1
           read == [reads[1] EXCEPT !.got = Append(@, wire[pos + 1])]
           g == Len(reads[1].got)
<1>1. /\ n \in 1..Len(wire) /\ pos \in Nat /\ pos' = n
      /\ UNCHANGED <<mode, wire, lasts, received, readerOpen>>
  BY Moves DEF ReaderInv
<1>2. Whole(n)
  BY <1>1, WholeIs
<1>3. Whole(pos)
  BY <1>1, WholeIs
<1>4. InStep
  BY <1>3 DEF Aligned
<1>5. /\ Base \in Nat /\ pos - Base \in Nat
      /\ pos > Base => Base + 1 \in 1..Len(wire) /\ Current \in FrameIds
  BY <1>4, WhereIs
<1>6. reads # <<>> /\ g < reads[1].need /\ pos < Len(wire)
  BY DEF Receive
<1>7. /\ 1 \in 1..Len(reads)
      /\ read \in Reads /\ read.part = reads[1].part /\ read.need = reads[1].need
      /\ Len(read.got) = g + 1 /\ read.got[g + 1] = wire[n]
      /\ \A i \in 1..g : read.got[i] = reads[1].got[i]
  BY <1>6, Grown
<1>8. g \in Nat /\ reads[1].need \in Nat
  BY <1>7, ReadType
<1>9. Len(reads) = 1 /\ (HeaderAt(reads[1]) \/ PayloadAt(reads[1]))
  BY <1>4, <1>6 DEF InStep
<1> HIDE DEF read, g, n
<1>10. Len(reads') = 1 /\ reads'[1] = read
  <2>1. CASE reads' = [reads EXCEPT ![1] = read]
    BY <1>7, <1>9, <2>1 DEF TypeOK
  <2>2. CASE reads' = Append(Tail(reads), read)
    <3>1. reads \in Seq(Reads)
      BY DEF TypeOK
    <3>2. Len(reads') = Len(reads) /\ reads'[Len(reads)] = read
      BY <1>6, <1>7, <2>2, <3>1, TailAppended
    <3> QED
      BY <1>9, <3>2
  <2> QED
    BY <2>1, <2>2 DEF Receive, read
<1>11. Base' = Base /\ Current' = Current
  BY <1>1 DEF Base, Current
<1>12. pos > Base => pos - Base < FrameLength(Current)
  <2> SUFFICES ASSUME pos > Base PROVE pos - Base < FrameLength(Current)
    OBVIOUS
  <2>1. /\ Size[Current] \in Nat /\ FrameLength(Current) \in Nat
        /\ FrameLength(Current) = Size[Current] + 2 /\ FrameLength(Current) >= 3
    BY <1>5, Lengthy
  <2>2. CASE HeaderAt(reads[1])
    <3>1. pos = Base + g /\ reads[1].need = 2
      BY <2>2 DEF HeaderAt, g
    <3> QED
      BY <1>1, <1>5, <1>6, <1>8, <2>1, <3>1
  <2>3. CASE PayloadAt(reads[1])
    <3>1. pos = Base + 2 + g /\ reads[1].need = Size[Current]
      BY <2>3 DEF PayloadAt, g
    <3> QED
      BY <1>1, <1>5, <1>6, <1>8, <2>1, <3>1
  <2> QED
    BY <1>9, <2>2, <2>3
<1>13. n \in Nat /\ n = pos + 1
  BY <1>1 DEF n
<1>14. wire[n] = Word(Current, n - Base)
  BY <1>1, <1>2, <1>4, <1>12, <1>13, NextWord
<1>15. \A j \in 1..(n - Base) : wire[Base + j] = Word(Current, j)
  <2> SUFFICES ASSUME NEW j \in 1..(n - Base) PROVE wire[Base + j] = Word(Current, j)
    OBVIOUS
  <2>1. CASE j \in 1..(pos - Base)
    BY <1>4, <2>1 DEF InStep
  <2>2. CASE j = n - Base
    <3>1. Base + j = n
      BY <1>5, <1>13, <2>2
    <3> QED
      BY <1>14, <2>2, <3>1
  <2>3. j \in 1..(pos - Base) \/ j = n - Base
    BY <1>1, <1>5, <1>13
  <2> QED
    BY <2>1, <2>2, <2>3
<1>16. HeaderAt(reads[1]) => HeaderAt(reads[1])'
  <2> SUFFICES ASSUME HeaderAt(reads[1]) PROVE HeaderAt(reads[1])'
    OBVIOUS
  <2>1. /\ reads[1].part = "header" /\ reads[1].need = 2 /\ pos = Base + g
        /\ \A i \in 1..g : reads[1].got[i] = wire[Base + i]
    BY DEF HeaderAt, g
  <2>2. g + 1 <= 2 /\ n = Base + (g + 1)
    BY <1>5, <1>6, <1>8, <1>13, <2>1
  <2>3. \A i \in 1..(g + 1) : i = g + 1 \/ i \in 1..g
    BY <1>8
  <2>4. \A i \in 1..(g + 1) : read.got[i] = wire[Base + i]
    BY <1>7, <2>1, <2>2, <2>3
  <2> QED
    BY <1>1, <1>7, <1>10, <1>11, <2>1, <2>2, <2>4 DEF HeaderAt
<1>17. PayloadAt(reads[1]) => PayloadAt(reads[1])'
  <2> SUFFICES ASSUME PayloadAt(reads[1]) PROVE PayloadAt(reads[1])'
    OBVIOUS
  <2>1. /\ reads[1].part = "payload" /\ reads[1].need = Size[Current] /\ pos = Base + 2 + g
        /\ \A i \in 1..g : reads[1].got[i] = wire[Base + 2 + i]
    BY DEF PayloadAt, g
  <2>2. g + 1 <= reads[1].need /\ n = Base + 2 + (g + 1) /\ n > Base
    BY <1>5, <1>6, <1>8, <1>13, <2>1
  <2>3. \A i \in 1..(g + 1) : i = g + 1 \/ i \in 1..g
    BY <1>8
  <2>4. \A i \in 1..(g + 1) : read.got[i] = wire[Base + 2 + i]
    BY <1>7, <2>1, <2>2, <2>3
  <2> QED
    BY <1>1, <1>7, <1>10, <1>11, <2>1, <2>2, <2>4 DEF PayloadAt
<1>18. reads' # <<>>
  BY <1>10
<1>19. Base' <= pos'
  BY <1>1, <1>5, <1>11, <1>13
<1>20. \A j \in 1..(pos' - Base') : wire'[Base' + j] = Word(Current', j)
  BY <1>1, <1>11, <1>15
<1>21. /\ Len(received') <= Len(lasts')
       /\ \A k \in 1..Len(received') : received'[k] = wire'[lasts'[k]].frame
  BY <1>1, <1>4 DEF InStep
<1> QED
  BY <1>9, <1>10, <1>16, <1>17, <1>18, <1>19, <1>20, <1>21 DEF InStep

\* A payload that is complete in the sync mode is the one of its frame, and the
\* next of those that were completed on the wire.
LEMMA PayloadEnds ==
    ASSUME Bounded, TypeOK, WriterInv, InStep, reads # <<>>, reads[1].part = "payload",
           Len(reads[1].got) = reads[1].need
    PROVE  /\ Current \in FrameIds /\ reads[1].got = Payload(Current)
           /\ Len(received) + 1 \in 1..Len(lasts)
           /\ lasts[Len(received) + 1] = pos /\ wire[pos].frame = Current
<1> DEFINE B == Base
           C == Current
           k == Len(received)
           got == reads[1].got
<1>1. /\ B \in Nat /\ pos \in Nat /\ k \in Nat
      /\ pos > B => /\ C \in FrameIds /\ wire[pos] = Word(C, pos - B) /\ pos \in 1..Len(wire)
  BY WhereIs
<1>2. /\ pos > B /\ reads[1].need = Size[C] /\ pos = B + 2 + Len(got)
      /\ \A n \in 1..Len(got) : got[n] = wire[B + 2 + n]
  <2>1. PayloadAt(reads[1])
    BY DEF InStep, HeaderAt
  <2> QED
    BY <2>1 DEF PayloadAt
<1>3. /\ C \in FrameIds /\ Size[C] \in Nat \ {0} /\ FrameLength(C) = Size[C] + 2
      /\ FrameLength(C) \in Nat
  BY <1>1, <1>2, Lengthy
<1>4. pos = B + FrameLength(C) /\ Len(got) = Size[C] /\ pos - B = FrameLength(C)
  <2>1. Len(got) = Size[C] /\ pos = B + 2 + Size[C]
    BY <1>2
  <2>2. B \in Nat /\ Size[C] \in Nat /\ FrameLength(C) = Size[C] + 2
    BY <1>1, <1>3
  <2> HIDE DEF B, C, got
  <2> QED
    BY <2>1, <2>2
<1>5. \A j \in 1..(pos - B) : wire[B + j] = Word(C, j)
  BY DEF InStep
<1>6. got = Payload(C)
  <2>1. 1 \in 1..Len(reads)
    BY HeadTail DEF TypeOK
  <2>2. got \in Seq(WireWords)
    BY <2>1, ReadType
  <2>3. got = [n \in 1..Size[C] |-> got[n]]
    BY <1>3, <1>4, <2>2
  <2>4. ASSUME NEW n \in 1..Size[C] PROVE got[n] = Word(C, n + 2)
    <3>1. n + 2 \in 1..(pos - B) /\ B + (n + 2) = B + 2 + n
      BY <1>1, <1>3, <1>4
    <3>2. wire[B + (n + 2)] = Word(C, n + 2)
      BY <1>5, <3>1
    <3> QED
      BY <1>2, <1>4, <3>1, <3>2
  <2> QED
    BY <2>3, <2>4 DEF Payload
<1>7. wire[pos].frame = C /\ wire[pos].place = FrameLength(C) /\ IsLast(wire[pos])
  <2>1. wire[pos] = Word(C, FrameLength(C))
    BY <1>1, <1>2, <1>4
  <2>2. wire[pos].frame = C /\ wire[pos].place = FrameLength(C)
    BY <1>3, <2>1, WordType
  <2> QED
    BY <2>2 DEF IsLast
<1>8. PICK m \in 1..Len(lasts) : lasts[m] = pos
  BY <1>1, <1>2, <1>7 DEF WriterInv, LastsAre
<1>9. Len(lasts) \in Nat /\ k <= Len(lasts) /\ \A l \in 1..Len(lasts) : lasts[l] \in Nat
  BY DEF InStep, TypeOK
<1>10. k < m
  <2>1. CASE k = 0
    BY <1>8, <2>1
  <2>2. CASE k # 0
    <3>1. k \in 1..Len(lasts) /\ lasts[k] = B
      BY <1>1, <1>9, <2>2 DEF Base
    <3>2. k # m
      BY <1>2, <1>8, <3>1, <1>1
    <3>3. m < k => lasts[m] < lasts[k]
      BY <1>8, <3>1 DEF WriterInv, LastsAre
    <3> QED
      BY <1>1, <1>2, <1>8, <3>1, <3>2, <3>3
  <2> QED
    BY <2>1, <2>2
<1>11. m = k + 1
  <2> SUFFICES ASSUME k + 1 < m PROVE FALSE
    BY <1>1, <1>9, <1>10
  <2>1. k + 1 \in 1..Len(lasts)
    BY <1>1, <1>9, <1>10
  <2>2. lasts[k + 1] < pos /\ lasts[k + 1] \in Nat
    BY <1>8, <1>9, <2>1 DEF WriterInv, LastsAre
  <2>3. lasts[k + 1] > B
    <3>1. CASE k = 0
      <4>1. B = 0 /\ lasts[k + 1] \in 1..Len(wire)
        BY <2>1, <3>1 DEF Base, TypeOK
      <4> QED
        BY <4>1
    <3>2. CASE k # 0
      <4>1. k \in 1..Len(lasts) /\ lasts[k] = B /\ k < k + 1
        BY <1>1, <1>9, <3>2 DEF Base
      <4>2. lasts[k] < lasts[k + 1]
        BY <2>1, <4>1 DEF WriterInv, LastsAre
      <4> QED
        BY <1>1, <2>2, <4>1, <4>2
    <3> QED
      BY <3>1, <3>2
  <2> DEFINE j == lasts[k + 1] - B
  <2>4. j \in 1..(pos - B) /\ B + j = lasts[k + 1] /\ j < FrameLength(C) /\ j \in Nat
    BY <1>1, <1>4, <2>2, <2>3
  <2>5. wire[lasts[k + 1]] = Word(C, j)
    BY <1>5, <2>4
  <2>6. ~IsLast(wire[lasts[k + 1]])
    BY <1>3, <2>4, <2>5, WordType DEF IsLast
  <2> QED
    BY <2>1, <2>6 DEF WriterInv, LastsAre
<1> QED
  BY <1>3, <1>6, <1>7, <1>8, <1>11

LEMMA ReadPayloadAligned ==
    ASSUME Bounded, TypeOK, WriterInv, ReaderInv, Aligned, ReadPayload
    PROVE  Aligned'
<1> DEFINE k == Len(received) + 1
<1>1. /\ reads # <<>> /\ reads[1].part = "payload" /\ Len(reads[1].got) = reads[1].need
      /\ reads' = Tail(reads) /\ UNCHANGED <<mode, wire, lasts, pos, readerOpen>>
  BY DEF ReadPayload, Complete, bytes
<1> SUFFICES ASSUME mode = "sync", Whole(pos) PROVE InStep'
  BY <1>1 DEF Aligned, Whole, Follows, IsLast
<1>2. InStep
  BY DEF Aligned
<1>3. /\ Current \in FrameIds /\ reads[1].got = Payload(Current)
      /\ k \in 1..Len(lasts) /\ lasts[k] = pos /\ wire[pos].frame = Current
  BY <1>1, <1>2, PayloadEnds
<1>4. PICK f \in FrameIds : Got = Payload(f) /\ received' = Append(received, f)
  BY DEF ReadPayload
<1>5. f = Current
  <2>1. Size[f] \in Nat \ {0} /\ Size[Current] \in Nat \ {0}
    BY <1>3, Lengthy
  <2>2. Payload(f)[1] = Word(f, 1 + 2) /\ Payload(Current)[1] = Word(Current, 1 + 2)
    <3>1. 1 \in 1..Size[f] /\ 1 \in 1..Size[Current]
      BY <2>1
    <3> QED
      BY <3>1 DEF Payload
  <2>3. Word(f, 1 + 2) = Word(Current, 1 + 2)
    BY <1>3, <1>4, <2>2 DEF Got
  <2> QED
    BY <2>3 DEF Word
<1>6. /\ k \in Nat \ {0} /\ Len(received') = k /\ received'[k] = f
      /\ \A i \in 1..(k - 1) : received'[i] = received[i]
  <2>1. received \in Seq(FrameIds \cup {Mixture}) /\ f \in FrameIds \cup {Mixture}
    BY DEF TypeOK
  <2> QED
    BY <1>4, <2>1, Appended
<1>7. Base' = pos /\ pos \in Nat
  BY <1>1, <1>3, <1>6 DEF Base, TypeOK
<1>8. reads' = <<>>
  <2>1. Len(reads) = 1
    BY <1>1, <1>2 DEF InStep
  <2>2. reads \in Seq(Reads)
    BY DEF TypeOK
  <2> QED
    BY <1>1, <2>1, <2>2
<1>9. ASSUME NEW i \in 1..k PROVE received'[i] = wire[lasts[i]].frame
  <2>1. CASE i = k
    BY <1>3, <1>5, <1>6, <2>1
  <2>2. CASE i \in 1..(k - 1)
    BY <1>2, <1>6, <2>2 DEF InStep
  <2> QED
    BY <1>6, <2>1, <2>2
<1>10. /\ Base' <= pos' /\ (1..(pos' - Base')) = {}
       /\ readerOpen' /\ reads' = <<>> => pos' = Base'
  BY <1>1, <1>7
<1> QED
  BY <1>1, <1>3, <1>6, <1>8, <1>9, <1>10 DEF InStep

\* The other steps leave what was taken, and the reader is where it was.
LEMMA ReaderAligned ==
    ASSUME Bounded, TypeOK, WriterInv, ReaderInv, Aligned, BeginRead \/ ReadContinues
    PROVE  Aligned'
<1>1. ASSUME UNCHANGED <<mode, wire, lasts, pos, received>>,
             ASSUME mode = "sync", InStep
             PROVE  /\ readerOpen' /\ reads' = <<>> => pos = Base
                    /\ reads' # <<>> =>
                         Len(reads') = 1 /\ (HeaderAt(reads[1])' \/ PayloadAt(reads[1])')
      PROVE  Aligned'
  <2> SUFFICES ASSUME mode = "sync", Whole(pos) PROVE InStep'
    BY <1>1 DEF Aligned, Whole, Follows, IsLast
  <2>1. InStep
    BY DEF Aligned
  <2>2. Base' = Base /\ Current' = Current
    BY <1>1 DEF Base, Current
  <2>3. /\ readerOpen' /\ reads' = <<>> => pos = Base
        /\ reads' # <<>> => Len(reads') = 1 /\ (HeaderAt(reads[1])' \/ PayloadAt(reads[1])')
    BY <1>1, <2>1
  <2> QED
    BY <1>1, <2>1, <2>2, <2>3 DEF InStep
<1>2. ASSUME UNCHANGED <<mode, wire, lasts, pos, received>>, reads' = <<>>, readerOpen' = FALSE
      PROVE  Aligned'
  BY <1>1, <1>2
<1>3. CASE BeginRead
  <2>1. UNCHANGED <<mode, wire, lasts, pos, received>> /\ readerOpen
    BY <1>3 DEF BeginRead, bytes
  <2>2. ASSUME mode = "sync", InStep
        PROVE  reads' # <<>> /\ Len(reads') = 1 /\ HeaderAt(reads[1])'
    <3>1. reads = <<>> /\ reads' = Append(reads, Read("header", 2))
      BY <1>3, <2>2 DEF BeginRead
    <3>2. reads' # <<>> /\ Len(reads') = 1 /\ reads'[1] = Read("header", 2)
      BY <3>1
    <3>3. pos = Base /\ Base' = Base /\ Base \in Nat
      BY <2>1, <2>2, <3>1, WhereIs DEF InStep, Base
    <3>4. reads'[1].part = "header" /\ reads'[1].need = 2 /\ Len(reads'[1].got) = 0
      BY <3>2, NewRead
    <3> QED
      BY <2>1, <3>2, <3>3, <3>4 DEF HeaderAt
  <2> QED
    BY <1>1, <2>1, <2>2
<1>4. CASE Receive
  BY <1>4, ReceiveAligned
<1>5. CASE ReadHeader
  <2>1. /\ UNCHANGED <<mode, wire, lasts, pos, received>>
        /\ reads # <<>> /\ reads[1].part = "header" /\ Len(reads[1].got) = reads[1].need
    BY <1>5 DEF ReadHeader, Complete, bytes
  <2>2. ASSUME mode = "sync", InStep
        PROVE  reads' # <<>> /\ Len(reads') = 1 /\ PayloadAt(reads[1])'
    <3>1. HeaderAt(reads[1]) /\ Len(reads) = 1
      BY <2>1, <2>2 DEF InStep, PayloadAt
    <3>2. /\ Len(Got) = 2 /\ pos = Base + 2 /\ Got[2] = wire[Base + 2]
      BY <2>1, <3>1 DEF HeaderAt, Got
    <3>3. Base \in Nat /\ pos > Base /\ Current \in FrameIds
      BY <2>2, <3>2, WhereIs
    <3>4. wire[Base + 2] = Word(Current, 2)
      BY <2>2, <3>2, <3>3 DEF InStep
    <3>5. Got[2].place = 2 /\ Got[2].frame = Current
      BY <3>2, <3>3, <3>4, WordType
    <3>6. reads' = Append(Tail(reads), Read("payload", Size[Current]))
      BY <1>5, <3>5 DEF ReadHeader, Announced
    <3>7. /\ Read("payload", Size[Current]) \in Reads
          /\ Read("payload", Size[Current]).part = "payload"
          /\ Read("payload", Size[Current]).need = Size[Current]
          /\ Len(Read("payload", Size[Current]).got) = 0 /\ Size[Current] \in Nat
      BY <3>3, Lengthy, NewRead
    <3>8. Len(reads') = 1 /\ reads'[1] = Read("payload", Size[Current])
      <4>1. reads \in Seq(Reads)
        BY DEF TypeOK
      <4>2. Len(reads') = Len(reads) /\ reads'[Len(reads)] = Read("payload", Size[Current])
        BY <2>1, <3>6, <3>7, <4>1, TailAppended
      <4> QED
        BY <3>1, <4>2
    <3>9. Base' = Base /\ Current' = Current
      BY <2>1 DEF Base, Current
    <3>10. pos' > Base' /\ pos' = Base' + 2 + 0 /\ 0 <= Size[Current]
      BY <2>1, <3>2, <3>3, <3>7, <3>9
    <3>11. reads' # <<>>
      BY <3>8
    <3> QED
      BY <3>7, <3>8, <3>9, <3>10, <3>11 DEF PayloadAt
  <2> QED
    BY <1>1, <2>1, <2>2
<1>6. CASE IncorrectMagic \/ ReadError
  BY <1>2, <1>6 DEF IncorrectMagic, ReadError, Complete, FailRead, bytes
<1>7. CASE ReadPayload
  BY <1>7, ReadPayloadAligned
<1>8. ASSUME Complete("payload"), Mixed PROVE Aligned'
  <2>1. /\ reads # <<>> /\ reads[1].part = "payload" /\ Len(reads[1].got) = reads[1].need
        /\ UNCHANGED <<mode, wire, lasts, pos>>
    BY <1>8 DEF Complete, bytes
  <2>2. ~(mode = "sync" /\ Whole(pos))
    BY <1>8, <2>1, PayloadEnds DEF Aligned, Mixed, Got
  <2> QED
    BY <2>1, <2>2 DEF Aligned, Whole, Follows, IsLast
<1>9. CASE ReadMixture
  BY <1>8, <1>9 DEF ReadMixture
<1>10. ASSUME NEW ec, ReadNoJson(ec) PROVE Aligned'
  BY <1>8, <1>10 DEF ReadNoJson
<1> QED
  BY <1>3, <1>4, <1>5, <1>6, <1>7, <1>9, <1>10 DEF ReadContinues

-----------------------------------------------------------------------------
(* The writers leave the reader where it is: what is on the wire stays there. *)

LEMMA WriterExtends ==
    ASSUME Bounded, TypeOK, NEW f \in FrameIds, BeginWrite(f) \/ WriteContinues(f)
    PROVE  /\ UNCHANGED <<mode, pos, reads, received, readerOpen>>
           /\ \A i \in 1..Len(wire) : wire'[i] = wire[i]
           /\ Len(lasts) \in Nat /\ Len(lasts') \in Nat /\ Len(lasts) <= Len(lasts')
           /\ \A k \in 1..Len(lasts) : lasts'[k] = lasts[k]
           /\ \A g \in FrameIds : written[g] = FrameLength(g) => written'[g] = written[g]
<1>1. CASE SendWord(f)
  <2>1. \A i \in 1..Len(wire) : wire'[i] = wire[i]
    BY <1>1, SentWord
  <2>2. /\ UNCHANGED <<mode, pos, reads, received, readerOpen>> /\ written[f] < FrameLength(f)
        /\ \A g \in FrameIds : g # f => written'[g] = written[g]
        /\ lasts' = lasts \/ lasts' = Append(lasts, Len(wire) + 1)
    BY <1>1, SentRest
  <2>3. written[f] # FrameLength(f)
    BY <2>2, Lengthy DEF TypeOK
  <2>4. /\ Len(lasts) \in Nat /\ Len(lasts') \in Nat /\ Len(lasts) <= Len(lasts')
        /\ \A k \in 1..Len(lasts) : lasts'[k] = lasts[k]
    <3>1. lasts \in Seq(Nat) /\ Len(wire) + 1 \in Nat
      BY DEF TypeOK
    <3> QED
      BY <2>2, <3>1, Appended
  <2> QED
    BY <2>1, <2>2, <2>3, <2>4
<1>2. CASE BeginWrite(f)
  BY <1>2 DEF BeginWrite, TypeOK, bytes, reader, ends
<1>3. CASE ReportWrite(f) \/ WriteFails(f)
  BY <1>3 DEF ReportWrite, WriteFails, TypeOK, bytes, reader, ends
<1> QED
  BY <1>1, <1>2, <1>3 DEF WriteContinues

LEMMA WriterKeepsReader ==
    ASSUME Bounded, TypeOK, ReaderInv, NEW f \in FrameIds, BeginWrite(f) \/ WriteContinues(f)
    PROVE  ReaderInv'
<1>1. /\ UNCHANGED <<mode, pos, reads, received>>
      /\ \A i \in 1..Len(wire) : wire'[i] = wire[i]
      /\ \A g \in FrameIds : written[g] = FrameLength(g) => written'[g] = written[g]
  BY WriterExtends
<1>2. \A i \in 1..pos : wire'[i] = wire[i]
  BY <1>1 DEF TypeOK
<1>3. HeaderNeeds' /\ DeliveredOnce'
  BY <1>1 DEF ReaderInv, HeaderNeeds, DeliveredOnce
<1>4. GotPassed' /\ HeldOnce'
  BY <1>1, <1>2 DEF ReaderInv, GotPassed, HeldOnce, Holds
<1>5. ASSUME NEW g \in FrameIds, Done(g) PROVE Done(g)'
  BY <1>1, <1>2, <1>5 DEF Done, Passed, Holds
<1>6. DeliveredPassed'
  BY <1>1, <1>5 DEF ReaderInv, DeliveredPassed, Delivered
<1> QED
  BY <1>3, <1>4, <1>6 DEF ReaderInv

LEMMA WriterKeepsAligned ==
    ASSUME Bounded, TypeOK, Aligned, NEW f \in FrameIds, BeginWrite(f) \/ WriteContinues(f)
    PROVE  Aligned'
<1>1. /\ UNCHANGED <<mode, pos, reads, received, readerOpen>>
      /\ \A i \in 1..Len(wire) : wire'[i] = wire[i]
      /\ Len(lasts) \in Nat /\ Len(lasts') \in Nat /\ Len(lasts) <= Len(lasts')
      /\ \A k \in 1..Len(lasts) : lasts'[k] = lasts[k]
  BY WriterExtends
<1>2. pos \in Nat /\ \A i \in 1..pos : i \in 1..Len(wire) /\ wire'[i] = wire[i]
  BY <1>1 DEF TypeOK
<1> SUFFICES ASSUME mode = "sync", Whole(pos)' PROVE InStep'
  BY <1>1 DEF Aligned
<1>3. Whole(pos)
  BY <1>1, <1>2, WholeIs
<1>4. InStep
  BY <1>3 DEF Aligned
<1>5. /\ Base \in Nat /\ pos - Base \in Nat /\ Len(received) \in Nat
      /\ pos > Base => Base + 1 \in 1..Len(wire)
  BY <1>4, WhereIs
<1>6. Base' = Base
  <2>1. Len(received) # 0 => Len(received) \in 1..Len(lasts)
    BY <1>1, <1>4, <1>5 DEF InStep
  <2> QED
    BY <1>1, <2>1 DEF Base
<1>7. pos > Base => Current' = Current
  BY <1>1, <1>5, <1>6 DEF Current
<1>8. \A n \in 1..(pos - Base) : Base + n \in 1..pos /\ pos > Base
  BY <1>2, <1>5
<1>9. \A n \in 1..(pos - Base) : wire'[Base' + n] = Word(Current', n)
  BY <1>2, <1>4, <1>6, <1>7, <1>8 DEF InStep
<1>10. \A k \in 1..Len(received) : received[k] = wire'[lasts'[k]].frame
  <2> SUFFICES ASSUME NEW k \in 1..Len(received) PROVE received[k] = wire'[lasts'[k]].frame
    OBVIOUS
  <2>1. k \in 1..Len(lasts)
    BY <1>1, <1>4, <1>5 DEF InStep
  <2>2. lasts[k] \in 1..Len(wire)
    BY <2>1 DEF TypeOK
  <2> QED
    BY <1>1, <1>4, <2>1, <2>2 DEF InStep
<1>11. ASSUME reads # <<>> PROVE HeaderAt(reads[1])' \/ PayloadAt(reads[1])'
  <2>1. Len(reads[1].got) \in Nat
    BY <1>11, HeadTail, ReadType DEF TypeOK
  <2>2. CASE HeaderAt(reads[1])
    <3>1. \A n \in 1..Len(reads[1].got) : wire'[Base + n] = wire[Base + n]
      <4>1. \A n \in 1..Len(reads[1].got) : n \in 1..(pos - Base)
        BY <1>5, <2>1, <2>2 DEF HeaderAt
      <4> QED
        BY <1>2, <1>8, <4>1
    <3>2. HeaderAt(reads[1])'
      BY <1>1, <1>6, <2>2, <3>1 DEF HeaderAt
    <3> QED
      BY <3>2
  <2>3. CASE PayloadAt(reads[1])
    <3>1. \A n \in 1..Len(reads[1].got) : wire'[Base + 2 + n] = wire[Base + 2 + n]
      <4>1. pos = Base + 2 + Len(reads[1].got)
        BY <2>3 DEF PayloadAt
      <4>2. \A n \in 1..Len(reads[1].got) : Base + 2 + n \in 1..pos
        BY <1>5, <2>1, <4>1
      <4> QED
        BY <1>2, <4>2
    <3>2. pos > Base /\ Current' = Current
      BY <1>7, <2>3 DEF PayloadAt
    <3>3. PayloadAt(reads[1])'
      BY <1>1, <1>6, <2>3, <3>1, <3>2 DEF PayloadAt
    <3> QED
      BY <3>3
  <2> QED
    BY <1>4, <1>11, <2>2, <2>3 DEF InStep
<1>12. Len(received) <= Len(lasts')
  BY <1>1, <1>4, <1>5 DEF InStep
<1> QED
  BY <1>1, <1>4, <1>6, <1>9, <1>10, <1>11, <1>12 DEF InStep

-----------------------------------------------------------------------------
(* Every step preserves the invariant.                                       *)

LEMMA InitIInv ==
    Bounded /\ Init /\ mode \in Modes /\ writerOpen = TRUE /\ readerOpen = TRUE => IInv
<1> SUFFICES ASSUME Bounded, Init, mode \in Modes, writerOpen = TRUE, readerOpen = TRUE
             PROVE  IInv
  OBVIOUS
<1>1. Len(wire) = 0 /\ Len(received) = 0 /\ Len(lasts) = 0 /\ Len(reads) = 0 /\ pos = 0
  BY DEF Init
<1>2. \A f \in FrameIds : progress[f] = "none" /\ written[f] = 0
  BY DEF Init
<1>3. WriterInv
  <2>1. ReportedWhole /\ FailedCloses /\ BegunInOrder /\ SentOnWire
    BY <1>2 DEF ReportedWhole, FailedCloses, BegunInOrder, SentOnWire
  <2> QED
    BY <1>1, <2>1 DEF WriterInv, Placed, SentOnce, WireInOrder, LastsAre
<1>4. ReaderInv
  BY <1>1 DEF ReaderInv, HeaderNeeds, GotPassed, HeldOnce, DeliveredPassed, Delivered,
              DeliveredOnce
<1>5. Aligned
  <2>1. Base = 0 /\ reads = <<>>
    BY <1>1 DEF Base, Init
  <2> QED
    BY <1>1, <2>1 DEF Aligned, InStep
<1> QED
  BY <1>3, <1>4, <1>5, InitType DEF IInv

LEMMA CloseInv ==
    ASSUME IInv, UNCHANGED <<mode, writer, bytes, reader>>,
           writerOpen' \in {writerOpen, FALSE}, readerOpen' \in {readerOpen, FALSE}
    PROVE  IInv'
<1>0. UNCHANGED <<mode, progress, written, wire, lasts, pos, reads, received>>
  BY DEF writer, bytes, reader
<1>1. TypeOK'
  BY <1>0 DEF IInv, TypeOK
<1>2. WriterInv'
  <2>1. FailedCloses'
    BY <1>0 DEF IInv, WriterInv, FailedCloses
  <2>2. Placed' /\ SentOnce' /\ SentOnWire' /\ ReportedWhole' /\ BegunInOrder'
    BY <1>0 DEF IInv, WriterInv, Placed, SentOnce, SentOnWire, Passed, ReportedWhole, BegunInOrder
  <2>3. WireInOrder' /\ LastsAre'
    BY <1>0 DEF IInv, WriterInv, WireInOrder, LastPassed, Passed, LastsAre
  <2> QED
    BY <2>1, <2>2, <2>3 DEF WriterInv
<1>3. ReaderInv'
  BY <1>0 DEF IInv, ReaderInv, HeaderNeeds, GotPassed, Holds, HeldOnce, DeliveredPassed, Delivered,
              Done, Passed, DeliveredOnce
<1>4. Aligned'
  <2> SUFFICES ASSUME mode = "sync", Whole(pos) PROVE InStep'
    BY <1>0 DEF Aligned, Whole, Follows, IsLast
  <2>1. InStep
    BY DEF IInv, Aligned
  <2>2. Base' = Base /\ Current' = Current
    BY <1>0 DEF Base, Current
  <2>3. HeaderAt(reads[1]) => HeaderAt(reads[1])'
    BY <1>0, <2>2 DEF HeaderAt
  <2>4. PayloadAt(reads[1]) => PayloadAt(reads[1])'
    BY <1>0, <2>2 DEF PayloadAt
  <2>5. readerOpen' /\ reads' = <<>> => pos' = Base'
    BY <1>0, <2>1, <2>2 DEF InStep, IInv, TypeOK
  <2> QED
    BY <1>0, <2>1, <2>2, <2>3, <2>4, <2>5 DEF InStep
<1> QED
  BY <1>1, <1>2, <1>3, <1>4 DEF IInv

LEMMA IInvStep == Bounded /\ IInv /\ [Next]_vars => IInv'
<1> SUFFICES ASSUME Bounded, IInv, [Next]_vars PROVE IInv'
  OBVIOUS
<1>1. ASSUME NEW f \in FrameIds, BeginWrite(f) \/ WriteContinues(f) PROVE IInv'
  BY <1>1, WriterType, WriterStepInv, WriterKeepsReader, WriterKeepsAligned DEF IInv
<1>2. CASE BeginRead \/ ReadContinues
  <2>1. UNCHANGED <<mode, progress, written, wire, lasts, writerOpen>>
    BY <1>2 DEF BeginRead, ReadContinues, Receive, ReadHeader, IncorrectMagic, ReadPayload,
                ReadMixture, ReadNoJson, ReadError, Complete, writer, bytes, ends
  <2>2. WriterInv'
    <3>1. Placed' /\ SentOnce' /\ SentOnWire' /\ ReportedWhole' /\ BegunInOrder'
      BY <2>1 DEF IInv, WriterInv, Placed, SentOnce, SentOnWire, Passed, ReportedWhole, BegunInOrder
    <3>2. FailedCloses' /\ WireInOrder' /\ LastsAre'
      BY <2>1 DEF IInv, WriterInv, FailedCloses, WireInOrder, LastPassed, Passed, LastsAre
    <3> QED
      BY <3>1, <3>2 DEF WriterInv
  <2>3. TypeOK'
    BY <1>2, ReaderType DEF IInv, ReaderInv
  <2>4. ReaderInv'
    BY <1>2, ReaderStepInv DEF IInv
  <2>5. Aligned'
    BY <1>2, ReaderAligned DEF IInv
  <2> QED
    BY <2>2, <2>3, <2>4, <2>5 DEF IInv
<1>3. CASE Close
  BY <1>3, CloseInv DEF Close
<1>4. CASE UNCHANGED vars
  BY <1>4, CloseInv DEF vars, ends
<1> QED
  BY <1>1, <1>2, <1>3, <1>4 DEF Next

\* Every state that is reached satisfies the inductive invariant.
THEOREM Inductive == ASSUME Bounded PROVE Spec => []IInv
<1>1. Init /\ mode \in Modes /\ writerOpen = TRUE /\ readerOpen = TRUE => IInv
  BY InitIInv
<1>2. IInv /\ [Next]_vars => IInv'
  BY IInvStep
<1> QED
  BY <1>1, <1>2, PTL DEF Spec

\* Type correctness, with any number of writers and in either mode.
THEOREM TypeCorrect == ASSUME Bounded PROVE Spec => []TypeOK
<1>1. IInv => TypeOK
  BY DEF IInv
<1> QED
  BY <1>1, Inductive, PTL

LEMMA NothingIs == ASSUME Bounded, IInv PROVE NothingInvented
<1>1. ASSUME NEW i \in 1..Len(received), received[i] # Mixture
      PROVE  written[received[i]] = FrameLength(received[i])
  <2>1. received[i] \in FrameIds
    BY <1>1 DEF IInv, TypeOK
  <2> QED
    BY <2>1 DEF IInv, ReaderInv, DeliveredPassed, Delivered, Done
<1>2. ASSUME mode = "sync", Whole(pos), NEW i \in 1..Len(received) PROVE received[i] # Mixture
  <2>1. InStep
    BY <1>2 DEF IInv, Aligned
  <2>2. i \in 1..Len(lasts) /\ received[i] = wire[lasts[i]].frame
    BY <2>1 DEF InStep, IInv, TypeOK
  <2>3. lasts[i] \in 1..Len(wire)
    BY <2>2 DEF IInv, TypeOK
  <2> QED
    BY <2>2, <2>3, OnWire, NoMixture DEF IInv
<1> QED
  BY <1>1, <1>2 DEF NothingInvented, IInv, ReaderInv, DeliveredOnce

LEMMA OrderIs == ASSUME Bounded, IInv PROVE InOrder
<1> SUFFICES ASSUME mode = "sync", Whole(pos), NEW i \in 1..Len(received), received[i][2] > 1
             PROVE  \E j \in 1..(i - 1) : received[j] = Previous(received[i])
  BY DEF InOrder
<1> DEFINE f == received[i]
           g == Previous(f)
<1>1. InStep
  BY DEF IInv, Aligned
<1>2. /\ Len(received) \in Nat /\ Len(lasts) \in Nat
      /\ \A k \in 1..Len(received) : k \in 1..Len(lasts) /\ received[k] = wire[lasts[k]].frame
  <2>1. Len(received) \in Nat /\ Len(lasts) \in Nat
    BY DEF IInv, TypeOK
  <2>2. Len(received) <= Len(lasts)
    BY <1>1 DEF InStep
  <2> QED
    BY <1>1, <2>1, <2>2 DEF InStep
<1>3. lasts[i] \in 1..Len(wire) /\ IsLast(wire[lasts[i]]) /\ wire[lasts[i]].frame = f
  BY <1>2 DEF IInv, TypeOK, WriterInv, LastsAre
<1>4. f \in FrameIds
  BY <1>3, OnWire DEF IInv
<1>5. g \in FrameIds
  BY <1>4, PreviousFrame
<1>6. PICK p \in 1..(lasts[i] - 1) : wire[p] = Word(g, FrameLength(g))
  BY <1>3 DEF IInv, WriterInv, WireInOrder, LastPassed, Passed
<1>7. p \in 1..Len(wire) /\ IsLast(wire[p]) /\ wire[p].frame = g
  BY <1>3, <1>5, <1>6, Lengthy, WordType DEF IsLast
<1>8. PICK k \in 1..Len(lasts) : lasts[k] = p
  BY <1>7 DEF IInv, WriterInv, LastsAre
<1>9. k < i
  <2>1. lasts[k] < lasts[i]
    BY <1>3, <1>6, <1>8
  <2>2. k # i /\ (i < k => lasts[i] < lasts[k])
    BY <1>2, <1>8, <2>1 DEF IInv, WriterInv, LastsAre
  <2> QED
    BY <1>2, <1>3, <1>8, <2>1, <2>2
<1>10. k \in 1..(i - 1) /\ k \in 1..Len(received)
  BY <1>2, <1>8, <1>9
<1> QED
  BY <1>2, <1>7, <1>8, <1>10

\* However the frames of any number of writers are torn and mixed, in either
\* mode, the reader is given whole frames that were sent, each once; and in the
\* sync mode nothing else before it reads where they are torn.
THEOREM NoneInvented == ASSUME Bounded PROVE Spec => []NothingInvented
<1>1. IInv => NothingInvented
  BY NothingIs
<1> QED
  BY <1>1, Inductive, PTL

\* In the sync mode the frames of every writer are delivered in order without a
\* gap, although the writers take no lock, until one that is torn is read.
THEOREM DeliveredInOrder == ASSUME Bounded PROVE Spec => []InOrder
<1>1. IInv => InOrder
  BY OrderIs
<1> QED
  BY <1>1, Inductive, PTL

-----------------------------------------------------------------------------
(* In the sync mode the frames of a writer can be counted as they arrive.    *)

\* All the frames of a writer up to one that was delivered came before that one.
AllBefore ==
    mode = "sync" /\ Whole(pos) =>
        \A i \in 1..Len(received) : \A m \in 1..received[i][2] :
            \E j \in 1..i : received[j] = <<received[i][1], m>>

\* Among what was delivered up to frame <<w, n>>, there are n frames of w.
CountIs ==
    mode = "sync" /\ Whole(pos) =>
        \A i \in 1..Len(received) :
            Cardinality({j \in 1..i : received[j][1] = received[i][1]}) = received[i][2]

LEMMA FrameIs ==
    ASSUME Bounded, NEW f \in FrameIds
    PROVE  f = <<f[1], f[2]>> /\ f[1] \in Writers /\ f[2] \in Nat \ {0}
BY DEF FrameIds, Bounded

\* What a step does to what was delivered, and to what was taken.
LEMMA ReceivedStep ==
    ASSUME Bounded, IInv, [Next]_vars
    PROVE  /\ mode' = mode /\ pos \in Nat /\ pos' \in Nat /\ pos <= pos'
           /\ \A i \in 1..pos : wire'[i] = wire[i]
           /\ \/ received' = received
              \/ \E f \in FrameIds \cup {Mixture} : received' = Append(received, f)
<1>0. pos \in Nat /\ \A i \in 1..pos : i \in 1..Len(wire)
  BY DEF IInv, TypeOK
<1>1. ASSUME NEW f \in FrameIds, BeginWrite(f) \/ WriteContinues(f)
      PROVE  mode' = mode /\ pos' = pos /\ received' = received /\ \A i \in 1..pos : wire'[i] = wire[i]
  BY <1>0, <1>1, WriterExtends DEF IInv
<1>2. ASSUME BeginRead \/ ReadContinues
      PROVE  /\ mode' = mode /\ pos' \in {pos, pos + 1} /\ wire' = wire
             /\ \/ received' = received
                \/ \E f \in FrameIds \cup {Mixture} : received' = Append(received, f)
  BY <1>2 DEF BeginRead, ReadContinues, Receive, ReadHeader, IncorrectMagic, ReadPayload,
              ReadMixture, ReadNoJson, ReadError, FailRead, Complete, bytes
<1>3. ASSUME Close \/ UNCHANGED vars
      PROVE  mode' = mode /\ pos' = pos /\ received' = received /\ wire' = wire
  BY <1>3 DEF Close, vars, reader, bytes
<1> QED
  BY <1>0, <1>1, <1>2, <1>3 DEF Next

LEMMA AllBeforeStep ==
    ASSUME Bounded, IInv, NothingInvented', InOrder', AllBefore, [Next]_vars
    PROVE  AllBefore'
<1> DEFINE k == Len(received) + 1
<1>0. mode' = mode /\ (Whole(pos)' => Whole(pos))
  BY ReceivedStep, WholeIs
<1> SUFFICES ASSUME mode = "sync", Whole(pos)', received' # received PROVE AllBefore'
  BY <1>0 DEF AllBefore
<1>1. PICK f \in FrameIds \cup {Mixture} : received' = Append(received, f)
  BY ReceivedStep
<1>2. /\ k \in Nat \ {0} /\ Len(received') = k /\ received'[k] = f
      /\ \A i \in 1..(k - 1) : received'[i] = received[i]
  <2>1. received \in Seq(FrameIds \cup {Mixture})
    BY DEF IInv, TypeOK
  <2> QED
    BY <1>1, <2>1, Appended
<1>3. f \in FrameIds
  BY <1>0, <1>2 DEF NothingInvented
<1>4. f = <<f[1], f[2]>> /\ f[2] \in Nat \ {0}
  BY <1>3, FrameIs
<1>5. \A i \in 1..(k - 1) : \A m \in 1..received[i][2] :
        \E j \in 1..i : received[j] = <<received[i][1], m>>
  <2>1. k - 1 = Len(received)
    BY DEF IInv, TypeOK
  <2> QED
    BY <1>0, <2>1 DEF AllBefore
<1>6. ASSUME NEW m \in 1..f[2] PROVE \E j \in 1..k : received'[j] = <<f[1], m>>
  <2>1. CASE m = f[2]
    BY <1>2, <1>4, <2>1
  <2>2. CASE m < f[2]
    <3>1. PICK j \in 1..(k - 1) : received'[j] = <<f[1], f[2] - 1>>
      <4>1. k \in 1..Len(received') /\ received'[k][2] > 1
        BY <1>2, <1>4, <2>2
      <4>2. \E j \in 1..(k - 1) : received'[j] = Previous(received'[k])
        BY <1>0, <4>1 DEF InOrder, Previous
      <4> QED
        BY <1>2, <4>2 DEF Previous
    <3>2. received[j][1] = f[1] /\ received[j][2] = f[2] - 1
      BY <1>2, <3>1
    <3>3. m \in 1..(f[2] - 1)
      BY <1>4, <2>2
    <3>4. PICK i \in 1..j : received[i] = <<f[1], m>>
      BY <1>5, <3>2, <3>3
    <3>5. i \in 1..(k - 1) /\ i \in 1..k
      BY <1>2, <3>1, <3>4
    <3> QED
      BY <1>2, <3>4, <3>5
  <2> QED
    BY <1>4, <2>1, <2>2
<1>7. ASSUME NEW i \in 1..(k - 1), NEW m \in 1..received[i][2]
      PROVE  \E j \in 1..i : received'[j] = <<received[i][1], m>>
  <2>1. PICK j \in 1..i : received[j] = <<received[i][1], m>>
    BY <1>5
  <2>2. j \in 1..(k - 1)
    BY <1>2, <2>1
  <2> QED
    BY <1>2, <2>1, <2>2
<1> SUFFICES ASSUME NEW i \in 1..k, NEW m \in 1..received'[i][2]
             PROVE  \E j \in 1..i : received'[j] = <<received'[i][1], m>>
  BY <1>2 DEF AllBefore
<1>8. CASE i = k
  BY <1>2, <1>6, <1>8
<1>9. CASE i \in 1..(k - 1)
  BY <1>2, <1>7, <1>9
<1> QED
  BY <1>2, <1>8, <1>9

LEMMA Counting == ASSUME Bounded, IInv, AllBefore PROVE CountIs
<1> SUFFICES ASSUME mode = "sync", Whole(pos), NEW i \in 1..Len(received)
             PROVE  Cardinality({j \in 1..i : received[j][1] = received[i][1]}) = received[i][2]
  BY DEF CountIs
<1> DEFINE w == received[i][1]
           n == received[i][2]
           S == {j \in 1..i : received[j][1] = w}
           place == [j \in S |-> received[j][2]]
<1>1. Len(received) \in Nat /\ i \in Nat \ {0}
  BY DEF IInv, TypeOK
<1>2. \A j \in 1..i : j \in 1..Len(received)
  BY <1>1
<1>3. \A j \in 1..i : received[j] = <<received[j][1], received[j][2]>> /\ received[j][2] \in Nat \ {0}
  <2> SUFFICES ASSUME NEW j \in 1..i
               PROVE  received[j] = <<received[j][1], received[j][2]>> /\ received[j][2] \in Nat \ {0}
    OBVIOUS
  <2>1. received[j] \in FrameIds
    BY <1>2, NothingIs DEF NothingInvented, IInv, TypeOK
  <2> QED
    BY <2>1, FrameIs
<1>4. \A j, l \in 1..i : received[j] = received[l] => j = l
  BY <1>2, NothingIs DEF NothingInvented
<1>5. \A m \in 1..n : \E j \in 1..i : received[j] = <<w, m>>
  BY DEF AllBefore
<1>6. n \in Nat
  BY <1>1, <1>3
<1>7. \A j \in S : received[j][2] \in 1..n
  <2> SUFFICES ASSUME NEW j \in S, received[j][2] > n PROVE FALSE
    BY <1>3, <1>6
  <2>1. received[i][2] \in 1..received[j][2]
    BY <1>1, <1>3
  <2>2. PICK l \in 1..j : received[l] = <<received[j][1], n>>
    BY <1>2, <2>1 DEF AllBefore
  <2>3. l \in 1..i /\ received[l] = received[i]
    BY <1>1, <1>3, <2>2
  <2>4. l = i
    BY <1>1, <1>4, <2>3
  <2>5. j = i
    BY <2>2, <2>4
  <2> QED
    BY <1>6, <2>5
<1>8. place \in Bijection(S, 1..n)
  <2>1. place \in [S -> 1..n]
    BY <1>7
  <2>2. \A a, b \in S : place[a] = place[b] => a = b
    BY <1>3, <1>4
  <2>3. \A t \in 1..n : \E s \in S : place[s] = t
    <3> SUFFICES ASSUME NEW t \in 1..n PROVE \E s \in S : place[s] = t
      OBVIOUS
    <3>1. PICK j \in 1..i : received[j] = <<w, t>>
      BY <1>5
    <3>2. j \in S /\ place[j] = t
      BY <3>1
    <3> QED
      BY <3>2
  <2> QED
    BY <2>1, <2>2, <2>3, Fun_IsBij
<1>9. ExistsBijection(1..n, S)
  BY <1>8, Fun_ExistsBij, Fun_ExistsBijSymmetric
<1> QED
  BY <1>6, <1>9, FS_CountingElements

\* In the sync mode the number of a frame is its place among what arrives from
\* its writer: onAllRead is called for each of them once and in order.
THEOREM Numbered == ASSUME Bounded PROVE Spec => []CountIs
<1>1. IInv => NothingInvented /\ InOrder
  BY NothingIs, OrderIs
<1>2. IInv /\ NothingInvented' /\ InOrder' /\ AllBefore /\ [Next]_vars => AllBefore'
  BY AllBeforeStep
<1>3. Init => AllBefore
  BY DEF Init, AllBefore
<1>4. IInv /\ AllBefore => CountIs
  BY Counting
<1> QED
  BY <1>1, <1>2, <1>3, <1>4, Inductive, PTL DEF Spec
=============================================================================
