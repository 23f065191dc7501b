----------------------------- MODULE LineProofs -----------------------------
(***************************************************************************)
(* A direction of a connection in the sync mode, as long as one writer has *)
(* used it, is a Channel: no frame is torn, they come out in the order in  *)
(* which they were sent, none is skipped, whatever ends the connection and *)
(* wherever.                                                               *)
(***************************************************************************)
EXTENDS FramesProofs

\* There is one writer; or one writer at most has written anything yet.
OneWriter == \A f, g \in FrameIds : f[2] = g[2] => f = g
Begun(f) == progress[f] # "none"
Alone == \A f, g \in FrameIds : Begun(f) /\ Begun(g) => f[1] = g[1]

\* A frame is begun after all the frames of the writer before it.
BegunAfterAll ==
    \A f, g \in FrameIds : Begun(f) /\ f[1] = g[1] /\ g[2] < f[2] =>
        progress[g] \in {"reported", "failed"}
WrittenBegun == \A f \in FrameIds : written[f] > 0 => Begun(f)

\* The end of the wire is where the writer is.
AtLastWord ==
    writerOpen =>
        /\ wire # <<>> => wire[Len(wire)].place = written[wire[Len(wire)].frame]
        /\ \A f \in FrameIds : 0 < written[f] /\ written[f] < FrameLength(f) =>
             wire # <<>> /\ wire[Len(wire)] = Word(f, written[f])

LineInv ==
    /\ WrittenBegun
    /\ mode = "sync" => BegunAfterAll /\ (Alone => AtLastWord /\ Whole(Len(wire)))

-----------------------------------------------------------------------------
LEMMA SameWriter ==
    ASSUME NEW f \in FrameIds, NEW g \in FrameIds, f[1] = g[1], f[2] = g[2]
    PROVE  f = g
  BY DEF FrameIds

LEMMA InitLine == Init => LineInv
<1> SUFFICES ASSUME Init PROVE LineInv
  OBVIOUS
<1>1. wire = <<>> /\ Len(wire) = 0
  BY DEF Init
<1>2. \A f \in FrameIds : progress[f] = "none" /\ written[f] = 0
  BY DEF Init
<1>3. BegunAfterAll /\ WrittenBegun /\ AtLastWord
  BY <1>1, <1>2 DEF BegunAfterAll, WrittenBegun, AtLastWord, Begun
<1> QED
  BY <1>1, <1>3 DEF LineInv, Whole

\* While the writer is in a frame, all the others that it has begun are complete.
LEMMA OneAtATime ==
    ASSUME Bounded, IInv, BegunAfterAll, Alone, writerOpen, NEW f \in FrameIds, NEW g \in FrameIds,
           progress[f] = "started", Begun(g), f # g
    PROVE  written[g] = FrameLength(g)
<1>1. f[1] = g[1]
  BY DEF Alone, Begun
<1>2. f[2] \in Nat /\ g[2] \in Nat /\ f[2] # g[2]
  BY <1>1, SameWriter, FrameIs
<1>3. ~(f[2] < g[2])
  BY <1>1 DEF BegunAfterAll
<1>4. g[2] < f[2]
  BY <1>2, <1>3
<1>5. progress[g] \in {"reported", "failed"}
  BY <1>1, <1>4 DEF BegunAfterAll, Begun
<1> QED
  BY <1>5 DEF IInv, WriterInv, ReportedWhole, FailedCloses

\* The words that are known to be whole stay so.
LEMMA WholeStays ==
    ASSUME NEW n \in Nat, Whole(n), \A i \in 1..n : wire'[i] = wire[i]
    PROVE  \A i \in 1..n : IF i = 1 THEN wire'[1].place = 1 ELSE Follows(wire'[i - 1], wire'[i])
<1>1. \A i \in 1..n : i # 1 => i - 1 \in 1..n
  OBVIOUS
<1> QED
  BY <1>1 DEF Whole

\* A word that is sent follows the last of the wire.
LEMMA SendLine ==
    ASSUME Bounded, Alone, IInv, LineInv, mode = "sync", NEW f \in FrameIds, SendWord(f)
    PROVE  AtLastWord' /\ Whole(Len(wire))'
<1> DEFINE n == Len(wire)
           k == written[f] + 1
<1>1. /\ n \in Nat /\ Len(wire') = n + 1 /\ wire'[n + 1] = Word(f, k)
      /\ \A i \in 1..n : wire'[i] = wire[i]
  BY SentWord DEF IInv
<1>2. /\ progress[f] = "started" /\ written[f] < FrameLength(f) /\ writerOpen
      /\ written'[f] = k /\ \A g \in FrameIds : g # f => written'[g] = written[g]
  BY SentRest DEF IInv
<1>3. written[f] \in Nat /\ k \in Nat /\ FrameLength(f) \in Nat /\ wire \in Seq(WireWords)
  BY Lengthy DEF IInv, TypeOK
<1>4. wire'[n + 1].place = k /\ wire'[n + 1].frame = f
  BY <1>1, <1>3, WordType
<1>5. BegunAfterAll /\ WrittenBegun /\ AtLastWord /\ Whole(n)
  BY DEF LineInv
<1>6. \A g \in FrameIds : g # f /\ written[g] > 0 => written[g] = FrameLength(g)
  BY <1>2, <1>5, OneAtATime DEF WrittenBegun
<1>7. ASSUME n # 0 PROVE Follows(wire[n], Word(f, k))
  <2> DEFINE h == wire[n].frame
  <2>1. /\ n \in 1..n /\ wire # <<>> /\ h \in FrameIds /\ wire[n].place \in Nat
        /\ wire[n] = Word(h, wire[n].place)
    BY <1>1, <1>7, OnWire DEF IInv
  <2>2. wire[n].place > 0
    <3>1. CASE n = 1
      BY <1>5, <2>1, <3>1 DEF Whole
    <3>2. CASE n # 1
      <4>0. n \in 1..n /\ n - 1 \in 1..n
        <5> HIDE DEF n
        <5> QED
          BY <1>1, <1>7, <3>2
      <4>1. Follows(wire[n - 1], wire[n]) /\ n - 1 \in 1..n
        BY <1>5, <3>2, <4>0 DEF Whole
      <4>2. wire[n - 1].place \in Nat /\ wire[n - 1].frame \in FrameIds
        BY <4>1, OnWire DEF IInv
      <4> QED
        BY <4>1, <4>2, <2>1, WordType DEF Follows
    <3> QED
      BY <3>1, <3>2
  <2>3. wire[n].place = written[h]
    BY <1>2, <1>5, <2>1 DEF AtLastWord
  <2>4. CASE written[f] > 0
    <3>1. wire[n] = Word(f, written[f])
      BY <1>2, <1>5, <2>4 DEF AtLastWord
    <3>2. wire[n].place = written[f] /\ wire[n].frame = f
      BY <1>3, <3>1, WordType
    <3>3. ~IsLast(wire[n])
      BY <1>2, <1>3, <3>2 DEF IsLast
    <3> QED
      BY <3>2, <3>3 DEF Follows
  <2>5. CASE written[f] = 0
    <3>1. h # f
      BY <2>2, <2>3, <2>5
    <3>2. IsLast(wire[n])
      BY <1>6, <2>1, <2>2, <2>3, <3>1 DEF IsLast
    <3>3. k = 1 /\ Word(f, k).frame = f
      BY <1>3, <2>5, WordType
    <3> QED
      BY <3>2, <3>3 DEF Follows
  <2> QED
    BY <1>3, <2>4, <2>5
<1>8. Whole(Len(wire))'
  <2> SUFFICES ASSUME NEW i \in 1..(n + 1)
               PROVE  IF i = 1 THEN wire'[1].place = 1 ELSE Follows(wire'[i - 1], wire'[i])
    BY <1>1 DEF Whole, Follows, IsLast
  <2>1. CASE i \in 1..n
    BY <1>1, <1>5, <2>1, WholeStays
  <2>2. CASE i = n + 1 /\ n # 0
    <3>1. i # 1 /\ i - 1 = n /\ n \in 1..n
      BY <1>1, <2>2
    <3>2. wire'[i - 1] = wire[n] /\ wire'[i] = Word(f, k)
      BY <1>1, <2>2, <3>1
    <3> QED
      BY <1>7, <2>2, <3>1, <3>2
  <2>3. CASE i = n + 1 /\ n = 0
    <3>1. wire = <<>>
      BY <1>3, <2>3
    <3>2. written[f] = 0
      BY <1>2, <1>3, <1>5, <3>1 DEF AtLastWord
    <3> QED
      BY <1>4, <2>3, <3>2
  <2> QED
    BY <1>1, <2>1, <2>2, <2>3
<1>9. AtLastWord'
  <2>1. wire' # <<>>
    BY <1>1
  <2>2. wire'[Len(wire')].place = written'[wire'[Len(wire')].frame]
    BY <1>1, <1>2, <1>4
  <2>3. ASSUME NEW g \in FrameIds, 0 < written'[g], written'[g] < FrameLength(g)
        PROVE  wire'[Len(wire')] = Word(g, written'[g])
    <3>1. g = f
      <4> SUFFICES ASSUME g # f PROVE FALSE
        OBVIOUS
      <4>1. written[g] \in Nat /\ FrameLength(g) \in Nat /\ written'[g] = written[g]
        BY <1>2, Lengthy DEF IInv, TypeOK
      <4> QED
        BY <1>6, <2>3, <4>1
    <3> QED
      BY <1>1, <1>2, <3>1
  <2> QED
    BY <2>1, <2>2, <2>3 DEF AtLastWord
<1> QED
  BY <1>8, <1>9

\* A write that has begun stays so.
LEMMA KeepsBegun ==
    ASSUME IInv, [Next]_vars, NEW f \in FrameIds, Begun(f)
    PROVE  Begun(f)'
<1>1. ASSUME NEW g \in FrameIds, BeginWrite(g) \/ WriteContinues(g) PROVE Begun(f)'
  BY <1>1 DEF BeginWrite, WriteContinues, SendWord, ReportWrite, WriteFails, Begun, IInv, TypeOK
<1>2. CASE BeginRead \/ ReadContinues \/ Close \/ UNCHANGED vars
  BY <1>2 DEF BeginRead, ReadContinues, Receive, ReadHeader, IncorrectMagic, ReadPayload,
              ReadMixture, ReadNoJson, ReadError, Complete, Close, vars, writer, Begun
<1> QED
  BY <1>1, <1>2 DEF Next

\* What is written of a frame is written by a write that has begun.
LEMMA WrittenStep == ASSUME IInv, WrittenBegun, [Next]_vars PROVE WrittenBegun'
<1>1. ASSUME NEW f \in FrameIds, BeginWrite(f) \/ WriteContinues(f) PROVE WrittenBegun'
  <2> SUFFICES ASSUME NEW g \in FrameIds, written'[g] > 0 PROVE Begun(g)'
    BY DEF WrittenBegun
  <2>1. CASE g = f
    BY <1>1, <2>1 DEF BeginWrite, WriteContinues, SendWord, ReportWrite, WriteFails, Begun, IInv, TypeOK
  <2>2. CASE g # f
    <3>1. progress'[g] = progress[g] /\ written'[g] = written[g]
      BY <1>1, <2>2 DEF BeginWrite, WriteContinues, SendWord, ReportWrite, WriteFails, IInv, TypeOK
    <3> QED
      BY <3>1 DEF WrittenBegun, Begun
  <2> QED
    BY <2>1, <2>2
<1>2. CASE BeginRead \/ ReadContinues \/ Close \/ UNCHANGED vars
  BY <1>2 DEF BeginRead, ReadContinues, Receive, ReadHeader, IncorrectMagic, ReadPayload,
              ReadMixture, ReadNoJson, ReadError, Complete, Close, vars, writer, Begun, WrittenBegun
<1> QED
  BY <1>1, <1>2 DEF Next

\* The writes begin in order.
LEMMA BegunStep ==
    ASSUME Bounded, IInv, BegunAfterAll, mode = "sync", NEW f \in FrameIds,
           BeginWrite(f) \/ WriteContinues(f)
    PROVE  BegunAfterAll'
<1>1. CASE BeginWrite(f)
  <2>1. /\ progress[f] = "none" /\ progress'[f] = "started" /\ written' = written
        /\ \A g \in FrameIds : g # f => progress'[g] = progress[g]
        /\ f[2] > 1 => progress[Previous(f)] \in {"reported", "failed"}
    BY <1>1 DEF BeginWrite, MayFollow, IInv, TypeOK
  <2>2. ASSUME NEW g \in FrameIds, f[1] = g[1], g[2] < f[2]
        PROVE  progress[g] \in {"reported", "failed"}
    <3>1. f[2] \in Nat \ {0} /\ g[2] \in Nat \ {0} /\ f[2] > 1
      BY <2>2, FrameIs
    <3>2. Previous(f) \in FrameIds /\ Previous(f)[1] = f[1] /\ Previous(f)[2] = f[2] - 1
      BY <3>1, PreviousFrame DEF Previous
    <3>3. CASE g[2] = f[2] - 1
      BY <2>1, <2>2, <3>1, <3>2, <3>3, SameWriter
    <3>4. CASE g[2] < f[2] - 1
      BY <2>1, <2>2, <3>1, <3>2, <3>4 DEF BegunAfterAll, Begun
    <3> QED
      BY <2>2, <3>1, <3>3, <3>4
  <2> QED
    BY <2>1, <2>2 DEF BegunAfterAll, Begun
<1>2. CASE WriteContinues(f)
  <2>1. /\ progress[f] = "started" /\ progress'[f] \in {"started", "reported", "failed"}
        /\ \A g \in FrameIds : g # f => progress'[g] = progress[g] /\ written'[g] = written[g]
    BY <1>2 DEF WriteContinues, SendWord, ReportWrite, WriteFails, IInv, TypeOK
  <2> QED
    BY <2>1 DEF BegunAfterAll, Begun
<1> QED
  BY <1>1, <1>2

LEMMA LineInvStep ==
    ASSUME Bounded, IInv, LineInv, [Next]_vars
    PROVE  LineInv'
<1>1. mode' = mode
  BY ReceivedStep
<1>0. WrittenBegun'
  BY WrittenStep DEF LineInv
<1> SUFFICES ASSUME mode = "sync" PROVE LineInv'
  BY <1>0, <1>1 DEF LineInv
<1>2. Alone' => Alone
  BY KeepsBegun DEF Alone
<1>3. BegunAfterAll /\ WrittenBegun /\ (Alone => AtLastWord /\ Whole(Len(wire)))
  BY DEF LineInv
<1>4. ASSUME wire' = wire, written' = written, writerOpen' => writerOpen,
             Alone => AtLastWord /\ Whole(Len(wire))
      PROVE  Alone => AtLastWord' /\ Whole(Len(wire))'
  BY <1>4 DEF AtLastWord, Whole, Follows, IsLast
<1>5. ASSUME NEW f \in FrameIds, BeginWrite(f) \/ WriteContinues(f) PROVE LineInv'
  <2>1. BegunAfterAll' /\ WrittenBegun'
    BY <1>0, <1>3, <1>5, BegunStep
  <2>2. CASE SendWord(f)
    BY <1>2, <2>1, <2>2, SendLine DEF LineInv
  <2>3. CASE BeginWrite(f) \/ ReportWrite(f) \/ WriteFails(f)
    <3>1. wire' = wire /\ written' = written /\ (writerOpen' => writerOpen)
      BY <2>3 DEF BeginWrite, ReportWrite, WriteFails, bytes, ends
    <3> QED
      BY <1>2, <1>3, <1>4, <2>1, <3>1 DEF LineInv
  <2> QED
    BY <1>5, <2>2, <2>3 DEF WriteContinues
<1>6. CASE BeginRead \/ ReadContinues \/ Close \/ UNCHANGED vars
  <2>1. UNCHANGED <<progress, written, wire>> /\ (writerOpen' => writerOpen)
    <3>1. CASE BeginRead
      BY <3>1 DEF BeginRead, writer, bytes, ends
    <3>2. CASE ReadContinues
      BY <3>2 DEF ReadContinues, Receive, ReadHeader, IncorrectMagic, ReadPayload, ReadMixture,
                  ReadNoJson, ReadError, Complete, writer, bytes, ends
    <3>3. CASE Close
      BY <3>3 DEF Close, writer, bytes
    <3>4. CASE UNCHANGED vars
      BY <3>4 DEF vars, writer, bytes, ends
    <3> QED
      BY <1>6, <3>1, <3>2, <3>3, <3>4
  <2>2. BegunAfterAll' /\ WrittenBegun'
    BY <1>0, <1>3, <2>1 DEF BegunAfterAll, Begun
  <2> QED
    BY <1>2, <1>3, <1>4, <2>1, <2>2 DEF LineInv
<1> QED
  BY <1>5, <1>6 DEF Next

\* A reader that is in step is in its frame.
LEMMA NotAstray == ASSUME Bounded, TypeOK, InStep PROVE ~Astray
<1> SUFFICES ASSUME NEW r \in 1..Len(reads) PROVE InFrame(reads[r])
  BY DEF Astray
<1> DEFINE got == reads[1].got
<1>1. Len(reads) = 1 /\ r = 1 /\ (HeaderAt(reads[1]) \/ PayloadAt(reads[1]))
  <2>1. reads # <<>> /\ Len(reads) \in Nat
    BY DEF TypeOK
  <2>2. Len(reads) = 1 /\ (HeaderAt(reads[1]) \/ PayloadAt(reads[1]))
    BY <2>1 DEF InStep
  <2> QED
    BY <2>2
<1>2. pos \in Nat /\ Base \in Nat /\ Len(got) \in Nat /\ (pos > Base => Current \in FrameIds)
  BY <1>1, WhereIs, ReadType
<1>3. \A j \in 1..(pos - Base) : wire[Base + j] = Word(Current, j)
  BY DEF InStep
<1>4. CASE HeaderAt(reads[1])
  <2>1. \A i \in 1..Len(got) : got[i] = Word(Current, i + 0)
    <3>1. pos - Base = Len(got) /\ \A i \in 1..Len(got) : got[i] = wire[Base + i] /\ i = i + 0
      BY <1>2, <1>4 DEF HeaderAt
    <3> QED
      BY <1>3, <3>1
  <2>2. \A i \in 1..Len(got) : 1 \in 1..Len(got) /\ got[1].frame = Current
    <3> SUFFICES ASSUME NEW i \in 1..Len(got)
                 PROVE  1 \in 1..Len(got) /\ got[1].frame = Current
      OBVIOUS
    <3>1. 1 \in 1..Len(got)
      BY <1>2
    <3>2. \E k : got[1] = Word(Current, k)
      BY <2>1, <3>1
    <3> QED
      BY <3>1, <3>2 DEF Word
  <2> QED
    BY <1>1, <1>4, <2>1, <2>2 DEF InFrame, HeaderAt
<1>5. CASE PayloadAt(reads[1])
  <2>1. \A i \in 1..Len(got) : got[i] = Word(Current, i + 2)
    <3>0. pos = Base + 2 + Len(got) /\ \A i \in 1..Len(got) : got[i] = wire[Base + 2 + i]
      BY <1>5 DEF PayloadAt
    <3>1. pos - Base = Len(got) + 2
      <4> HIDE DEF got
      <4> QED
        BY <1>2, <3>0
    <3>2. \A i \in 1..Len(got) : i + 2 \in 1..(pos - Base) /\ Base + (i + 2) = Base + 2 + i
      BY <1>2, <3>1
    <3> QED
      BY <1>3, <3>0, <3>1, <3>2
  <2>2. \A i \in 1..Len(got) : 1 \in 1..Len(got) /\ got[1].frame = Current
    <3> SUFFICES ASSUME NEW i \in 1..Len(got)
                 PROVE  1 \in 1..Len(got) /\ got[1].frame = Current
      OBVIOUS
    <3>1. 1 \in 1..Len(got)
      BY <1>2
    <3>2. \E k : got[1] = Word(Current, k)
      BY <2>1, <3>1
    <3> QED
      BY <3>1, <3>2 DEF Word
  <2> QED
    BY <1>1, <1>5, <2>1, <2>2 DEF InFrame, PayloadAt
<1> QED
  BY <1>1, <1>4, <1>5

\* What is said of the writers holds in either mode.
LEMMA LineInvHolds == ASSUME Bounded PROVE Spec => []LineInv
<1>1. LineInv /\ IInv /\ [Next]_vars => LineInv'
  BY LineInvStep
<1>2. Spec => []IInv
  BY Inductive
<1> QED
  BY <1>1, <1>2, InitLine, PTL DEF Spec

-----------------------------------------------------------------------------
(* The refinement.                                                           *)

\* A frame is sent with its last word.
LEMMA WordSends ==
    ASSUME Bounded, IInv, NEW f \in FrameIds, SendWord(f)
    PROVE  SentFrames' = SentFrames \/ SentFrames' = Append(SentFrames, f)
<1> DEFINE n == Len(wire)
           p == Len(lasts)
<1>1. \E place \in Nat :
        /\ n \in Nat /\ wire'[n + 1] = Word(f, place)
        /\ \A i \in 1..n : wire'[i] = wire[i]
  BY SentWord DEF IInv
<1>2. n \in Nat /\ wire'[n + 1].frame = f /\ \A i \in 1..n : wire'[i] = wire[i]
  BY <1>1 DEF Word
<1>3. lasts' = lasts \/ lasts' = Append(lasts, n + 1)
  BY SentRest DEF IInv
<1>4. lasts \in Seq(Nat) /\ p \in Nat /\ \A k \in 1..p : lasts[k] \in 1..n
  BY DEF IInv, TypeOK
<1>5. CASE lasts' = lasts
  BY <1>2, <1>4, <1>5 DEF SentFrames
<1>6. CASE lasts' = Append(lasts, n + 1)
  <2>1. /\ Len(lasts') = p + 1 /\ lasts'[p + 1] = n + 1
        /\ \A k \in 1..p : lasts'[k] = lasts[k]
    BY <1>2, <1>4, <1>6, Appended
  <2>2. \A k \in 1..p : wire'[lasts[k]] = wire[lasts[k]]
    BY <1>2, <1>4
  <2>3. \A k \in 1..(p + 1) : k \in 1..p \/ k = p + 1
    BY <1>4
  <2> DEFINE s == [k \in 1..p |-> wire[lasts[k]].frame]
             t == [k \in 1..(p + 1) |-> wire'[lasts'[k]].frame]
  <2>4. s \in Seq(FrameIds) /\ Len(s) = p
    <3>1. \A k \in 1..p : wire[lasts[k]].frame \in FrameIds
      BY <1>4, OnWire DEF IInv
    <3> QED
      BY <1>4, <3>1
  <2>5. /\ Append(s, f) \in Seq(FrameIds) /\ Len(Append(s, f)) = p + 1
        /\ Append(s, f)[p + 1] = f /\ \A k \in 1..p : Append(s, f)[k] = s[k]
    BY <2>4, Appended
  <2>6. \A k \in 1..(p + 1) : t[k] = Append(s, f)[k]
    BY <1>2, <2>1, <2>2, <2>3, <2>5
  <2>7. Append(s, f) = [k \in 1..(p + 1) |-> Append(s, f)[k]]
    BY <1>4, <2>5
  <2>8. t = Append(s, f)
    BY <2>6, <2>7
  <2>9. SentFrames = s /\ SentFrames' = t
    BY <2>1 DEF SentFrames
  <2> QED
    BY <2>8, <2>9
<1> QED
  BY <1>3, <1>5, <1>6

\* What is delivered is the next of the frames that were sent.
LEMMA PayloadReceives ==
    ASSUME Bounded, IInv, IInv', mode = "sync", mode' = mode, Whole(pos)', SentFrames' = SentFrames,
           NEW f, f \in FrameIds \cup {Mixture}, received' = Append(received, f)
    PROVE  /\ Len(received) < Len(SentFrames)
           /\ received' = Append(received, SentFrames[Len(received) + 1])
<1> DEFINE k == Len(received) + 1
<1>1. Len(received) \in Nat /\ Len(received') = k /\ received'[k] = f
  <2>1. received \in Seq(FrameIds \cup {Mixture})
    BY DEF IInv, TypeOK
  <2> QED
    BY <2>1, Appended
<1>2. InStep'
  BY DEF IInv, Aligned
<1>3. k \in 1..Len(lasts') /\ Len(lasts') \in Nat /\ f = wire'[lasts'[k]].frame
  <2>1. Len(lasts') \in Nat
    BY DEF IInv, TypeOK
  <2>2. k <= Len(lasts') /\ k \in 1..k
    BY <1>1, <1>2 DEF InStep
  <2>3. received'[k] = wire'[lasts'[k]].frame
    BY <1>1, <1>2, <2>2 DEF InStep
  <2> QED
    BY <1>1, <2>1, <2>2, <2>3
<1>4. Len(SentFrames') = Len(lasts') /\ SentFrames'[k] = f
  BY <1>3 DEF SentFrames
<1> QED
  BY <1>1, <1>3, <1>4

\* Every step is one of the channel, or none.
LEMMA LineStep ==
    ASSUME Bounded, Alone', IInv, IInv', LineInv, LineInv', [Next]_vars
    PROVE  [Line!Next]_(Line!vars)
<1>0. mode' = mode
  BY ReceivedStep
<1>1. CASE mode # "sync"
  BY <1>0, <1>1 DEF Line!vars
<1>2. ASSUME received' = received, SentFrames' = SentFrames PROVE UNCHANGED Line!vars
  BY <1>0, <1>2 DEF Line!vars
<1>3. CASE mode = "sync"
  <2>1. ASSUME NEW f \in FrameIds, BeginWrite(f) \/ WriteContinues(f)
        PROVE  [Line!Next]_(Line!vars)
    <3>1. received' = received
      BY <2>1, WriterExtends DEF IInv
    <3>2. CASE SendWord(f)
      <4>1. CASE SentFrames' = Append(SentFrames, f)
        <5>1. Line!Send(f)
          BY <1>0, <1>3, <3>1, <4>1 DEF Line!Send
        <5> QED
          BY <5>1 DEF Line!Next
      <4> QED
        BY <1>2, <3>1, <3>2, <4>1, WordSends
    <3>3. CASE BeginWrite(f) \/ ReportWrite(f) \/ WriteFails(f)
      BY <1>2, <3>1, <3>3 DEF BeginWrite, ReportWrite, WriteFails, bytes, SentFrames
    <3> QED
      BY <2>1, <3>2, <3>3 DEF WriteContinues
  <2>2. CASE BeginRead \/ ReadContinues \/ Close \/ UNCHANGED vars
    <3>1. UNCHANGED <<wire, lasts>>
      BY <2>2 DEF BeginRead, ReadContinues, Receive, ReadHeader, IncorrectMagic, ReadPayload,
                  ReadMixture, ReadNoJson, ReadError, Complete, Close, vars, bytes
    <3>2. SentFrames' = SentFrames
      BY <3>1 DEF SentFrames
    <3>3. CASE received' = received
      BY <1>2, <3>2, <3>3
    <3>4. ASSUME NEW f \in FrameIds \cup {Mixture}, received' = Append(received, f)
          PROVE  [Line!Next]_(Line!vars)
      <4>1. Whole(pos)'
        <5>1. Whole(Len(wire))'
          BY <1>0, <1>3 DEF LineInv
        <5>2. pos' \in 0..Len(wire') /\ Len(wire') \in Nat
          BY DEF IInv, TypeOK
        <5>3. \A i \in 1..pos' : i \in 1..Len(wire')
          BY <5>2
        <5> QED
          BY <5>1, <5>3 DEF Whole
      <4>2. /\ Len(received) < Len(SentFrames)
            /\ received' = Append(received, SentFrames[Len(received) + 1])
        BY <1>0, <1>3, <3>2, <3>4, <4>1, PayloadReceives
      <4>3. Line!Receive
        BY <1>0, <1>3, <3>2, <4>2 DEF Line!Receive
      <4> QED
        BY <4>3 DEF Line!Next
    <3> QED
      BY <3>3, <3>4, ReceivedStep
  <2> QED
    BY <2>1, <2>2 DEF Next
<1> QED
  BY <1>1, <1>3

\* One writer and one reader, each waiting for its calls to return, are a
\* channel: what is received is a prefix of what was sent, however the
\* connection is cut off. Nothing is assumed of the other direction.
THEOREM LineIsChannel == ASSUME Bounded, OneWriter PROVE Spec => ImplementsChannel
<1>1. Alone'
  <2>1. ASSUME NEW f \in FrameIds, NEW g \in FrameIds PROVE f[1] = g[1]
    <3>1. <<g[1], f[2]>> \in FrameIds /\ <<g[1], f[2]>>[2] = f[2] /\ <<g[1], f[2]>>[1] = g[1]
      BY DEF FrameIds
    <3>2. <<g[1], f[2]>> = f
      BY <3>1 DEF OneWriter
    <3> QED
      BY <3>1, <3>2
  <2> QED
    BY <2>1 DEF Alone
<1>2. Spec => []LineInv
  BY LineInvHolds
<1>3. LineInv /\ LineInv' /\ IInv /\ IInv' /\ [Next]_vars => [Line!Next]_(Line!vars)
  BY <1>1, LineStep
<1>4. Spec => []IInv
  BY Inductive
<1>5. Init => Line!Init
  <2> SUFFICES ASSUME Init PROVE Line!Init
    OBVIOUS
  <2>1. lasts = <<>> /\ Len(lasts) = 0 /\ received = <<>>
    BY DEF Init
  <2>2. SentFrames = <<>>
    BY <2>1 DEF SentFrames
  <2> QED
    BY <2>1, <2>2 DEF Line!Init
<1> QED
  BY <1>2, <1>3, <1>4, <1>5, PTL DEF Spec, ImplementsChannel, Line!Spec

\* However many writers there may be, in the sync mode a stream is torn, and its
\* reader somewhere inside a frame, only when two of them have written to it.
THEOREM TornByTwo ==
    ASSUME Bounded
    PROVE  Spec => [](mode = "sync" /\ Alone => Whole(Len(wire)) /\ ~Astray)
<1>1. Spec => []LineInv
  BY LineInvHolds
<1>2. LineInv /\ IInv => (mode = "sync" /\ Alone => Whole(Len(wire)) /\ ~Astray)
  <2> SUFFICES ASSUME LineInv, IInv, mode = "sync", Alone PROVE Whole(Len(wire)) /\ ~Astray
    OBVIOUS
  <2>1. Whole(Len(wire))
    BY DEF LineInv
  <2>2. \A i \in 1..pos : i \in 1..Len(wire)
    BY DEF IInv, TypeOK
  <2>3. InStep
    BY <2>1, <2>2 DEF IInv, Aligned, Whole
  <2> QED
    BY <2>1, <2>3, NotAstray DEF IInv
<1>3. Spec => []IInv
  BY Inductive
<1> QED
  BY <1>1, <1>2, <1>3, PTL
=============================================================================
