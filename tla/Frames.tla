------------------------------- MODULE Frames -------------------------------
(***************************************************************************)
(* core/transport_handler: one direction of a connection, word by word. A  *)
(* frame is a magic number, a length and a payload; the writers are the    *)
(* threads that call write on the one TransportHandler of a session, the   *)
(* reader is the other end's read_sync or read_async.                      *)
(*                                                                         *)
(* boost::asio::write hands the three buffers of a frame to the socket in  *)
(* as many pieces as the socket takes, and nothing keeps two calls apart:  *)
(* they can mix between any two words of 32 bits. `wire` is everything     *)
(* that was ever written and `pos` how much of it the reader has taken. In *)
(* the sync mode a writer writes one frame after the other and the reader  *)
(* has one read under way; in the async mode neither waits.                *)
(***************************************************************************)
EXTENDS Naturals, Sequences, Transport

CONSTANTS
    Writers,        \* who writes to the socket
    MaxFrames,      \* bound: frames of each writer
    Size,           \* how many words the payload of each frame has
    Lengths,        \* bound: what another word can be when it is read as a length
    MaxReads,       \* bound: reads under way in the async mode
    Capacity        \* bound: words the sockets hold that nobody has taken

\* Frame <<w, n>> is the n-th that w writes.
FrameIds == Writers \X (1..MaxFrames)
Previous(f) == <<f[1], f[2] - 1>>

\* What the proofs assume of the constants.
Bounded ==
    /\ MaxFrames \in Nat
    /\ \A f \in FrameIds : Size[f] \in Nat \ {0}
    /\ Lengths \subseteq Nat

VARIABLES
    mode,           \* IOMode of the session, "sync" or "async"; never changes
    progress,       \* what has become of the write of each frame
    written,        \* how many of its words were written
    wire,           \* the words that were written
    lasts,          \* history: the places on the wire where frames were completed
    pos,            \* how many words were taken
    reads,          \* the reads under way, first come first served
    received,       \* the frames given to onAllRead without an error
    writerOpen,     \* the socket of the writers is open
    readerOpen      \* the socket of the reader is open

writer == <<progress, written>>
bytes  == <<wire, lasts, pos>>
reader == <<reads, received>>
ends   == <<writerOpen, readerOpen>>
vars   == <<mode, writer, bytes, reader, ends>>

\* Word 1 of a frame is the magic number, word 2 the length, the others are the
\* payload. In place 0 is a length that is not the one of the frame.
Word(f, n) == [frame |-> f, place |-> n]
FrameLength(f) == Size[f] + 2
Payload(f) == [n \in 1..Size[f] |-> Word(f, n + 2)]
IsLast(word) == word.place = FrameLength(word.frame)

\* What a payload is taken for that is of several frames, or not all of one.
Mixture == <<"mixture", 0>>

Init ==
    /\ progress = [f \in FrameIds |-> "none"]
    /\ written = [f \in FrameIds |-> 0]
    /\ wire = <<>>
    /\ lasts = <<>>
    /\ pos = 0
    /\ reads = <<>>
    /\ received = <<>>

-----------------------------------------------------------------------------
(* TransportHandler::write and Session::write.                               *)

\* Mutation: a write does not wait for the one before it in either mode.
MayFollowAtOnce(f) == progress[f] # "none"

\* When a writer can go on from frame f to its next: sync writes return first.
MayFollow(f) ==
    IF mode = "sync" THEN progress[f] \in {"reported", "failed"} ELSE progress[f] # "none"

BeginWrite(f) ==
    /\ progress[f] = "none"
    /\ f[2] > 1 => MayFollow(Previous(f))
    /\ progress' = [progress EXCEPT ![f] = "started"]
    /\ UNCHANGED <<mode, written, bytes, reader, ends>>

\* The async write refers to json_len of a call that may have returned: what it
\* sends as a length is undefined.
Places(f) == {written[f] + 1} \cup IF mode = "async" /\ written[f] = 1 THEN {0} ELSE {}

\* Mutation: the end of the frame is not noticed.
SendWordOn(f) ==
    /\ progress[f] = "started"
    /\ f[2] > 1 => written[Previous(f)] > 0
    /\ writerOpen
    /\ Len(wire) - pos < Capacity
    /\ \E place \in Places(f) : wire' = Append(wire, Word(f, place))
    /\ written' = [written EXCEPT ![f] = @ + 1]
    /\ lasts' = IF written[f] + 1 = FrameLength(f) THEN Append(lasts, Len(wire) + 1) ELSE lasts
    /\ UNCHANGED <<mode, progress, pos, reader, ends>>

\* The socket takes one more word. It takes the writes of a writer in order.
SendWord(f) ==
    /\ progress[f] = "started" /\ written[f] < FrameLength(f)
    /\ f[2] > 1 => written[Previous(f)] > 0
    /\ writerOpen
    /\ Len(wire) - pos < Capacity
    /\ \E place \in Places(f) : wire' = Append(wire, Word(f, place))
    /\ written' = [written EXCEPT ![f] = @ + 1]
    /\ lasts' = IF written[f] + 1 = FrameLength(f) THEN Append(lasts, Len(wire) + 1) ELSE lasts
    /\ UNCHANGED <<mode, progress, pos, reader, ends>>

\* onAllWrite.
ReportWrite(f) ==
    /\ progress[f] = "started" /\ written[f] = FrameLength(f)
    /\ progress' = [progress EXCEPT ![f] = "reported"]
    /\ UNCHANGED <<mode, written, bytes, reader, ends>>

\* onError, onAllWrite and Session::write's disconnect. Once a write of a socket
\* has failed every later one fails too, so the three are one step.
WriteFails(f) ==
    /\ progress[f] = "started" /\ written[f] < FrameLength(f)
    /\ ~writerOpen \/ ~readerOpen
    /\ progress' = [progress EXCEPT ![f] = "failed"]
    /\ writerOpen' = FALSE
    /\ UNCHANGED <<mode, written, bytes, reader, readerOpen>>

-----------------------------------------------------------------------------
(* TransportHandler::read and Session::read.                                 *)

\* A read is complete when it has got as many words as it needs.
Read(part, need) == [part |-> part, need |-> need, got |-> <<>>]

BeginRead ==
    /\ readerOpen
    /\ IF mode = "sync" THEN reads = <<>> ELSE Len(reads) < MaxReads
    /\ reads' = Append(reads, Read("header", 2))
    /\ UNCHANGED <<mode, writer, bytes, received, ends>>

\* The first of the reads gets a word. It may get more of them at once, or wait
\* for them behind the other reads.
Receive ==
    /\ readerOpen
    /\ reads # <<>> /\ Len(reads[1].got) < reads[1].need
    /\ pos < Len(wire)
    /\ pos' = pos + 1
    /\ LET read == [reads[1] EXCEPT !.got = Append(@, wire[pos + 1])]
       IN  \/ reads' = [reads EXCEPT ![1] = read]
           \/ Len(read.got) < read.need /\ reads' = Append(Tail(reads), read)
    /\ UNCHANGED <<mode, writer, wire, lasts, received, ends>>

\* The first of the reads is complete; what it has got is looked at.
Complete(part) ==
    /\ readerOpen
    /\ reads # <<>> /\ reads[1].part = part /\ Len(reads[1].got) = reads[1].need
    /\ UNCHANGED <<mode, writer, bytes, writerOpen>>

Got == reads[1].got

\* The read fails: criticalError, disconnect; the other reads fail with it.
FailRead ==
    /\ readerOpen' = FALSE
    /\ reads' = <<>>
    /\ UNCHANGED received

\* Mutation: the buffer of the payload is one word short.
AnnouncedShort(word) == IF word.place = 2 THEN {Size[word.frame] - 1} ELSE Lengths

\* The length that is read is a frame's, or anything.
Announced(word) == IF word.place = 2 THEN {Size[word.frame]} ELSE Lengths

\* The read goes on with the payload, behind the reads that wait already.
ReadHeader ==
    /\ Complete("header")
    /\ Got[1].place = 1
    /\ \E n \in Announced(Got[2]) : reads' = Append(Tail(reads), Read("payload", n))
    /\ UNCHANGED <<received, readerOpen>>

\* The bytes are not the beginning of a frame: "Incorrect Magic".
IncorrectMagic ==
    /\ Complete("header")
    /\ Got[1].place # 1
    /\ FailRead

\* Mutation: onAllRead is called for the read and for its part.
ReadPayloadTwice ==
    /\ Complete("payload")
    /\ \E f \in FrameIds : Got = Payload(f) /\ received' = received \o <<f, f>>
    /\ reads' = Tail(reads)
    /\ UNCHANGED readerOpen

\* The payload is the JSON document of a frame. It may be another frame's than
\* the header was, when that has the same length.
ReadPayload ==
    /\ Complete("payload")
    /\ \E f \in FrameIds : Got = Payload(f) /\ received' = Append(received, f)
    /\ reads' = Tail(reads)
    /\ UNCHANGED readerOpen

\* Mutation: a whole document may fail to be parsed.
MixedAlways == TRUE

\* The bytes are not one document, from its beginning to its end.
Mixed == \A f \in FrameIds : Got # Payload(f)

\* It is put together from others, and happens to be a JSON document.
ReadMixture ==
    /\ Complete("payload")
    /\ Mixed /\ Got # <<>>
    /\ reads' = Tail(reads)
    /\ received' = Append(received, Mixture)
    /\ UNCHANGED readerOpen

\* It is no JSON document. check_error does not count "syntax": Session::read
\* hands on a null message and the session goes on.
ReadNoJson(ec) ==
    /\ Complete("payload")
    /\ Mixed
    /\ IF check_error(ec)
       THEN FailRead
       ELSE reads' = Tail(reads) /\ UNCHANGED <<received, readerOpen>>

\* The socket was closed at either end; bytes that were on the way may be lost.
ReadError ==
    /\ reads # <<>>
    /\ ~writerOpen \/ ~readerOpen
    /\ FailRead
    /\ UNCHANGED <<mode, writer, bytes, writerOpen>>

\* disconnect at either end.
Close ==
    /\ \/ writerOpen /\ writerOpen' = FALSE /\ UNCHANGED readerOpen
       \/ readerOpen /\ readerOpen' = FALSE /\ UNCHANGED writerOpen
    /\ UNCHANGED <<mode, writer, bytes, reader>>

-----------------------------------------------------------------------------
WriteContinues(f) == SendWord(f) \/ ReportWrite(f) \/ WriteFails(f)

ReadContinues ==
    \/ Receive
    \/ ReadHeader \/ IncorrectMagic
    \/ ReadPayload \/ ReadMixture \/ \E ec \in {"syntax", "other"} : ReadNoJson(ec)
    \/ ReadError

Next ==
    \/ \E f \in FrameIds : BeginWrite(f) \/ WriteContinues(f)
    \/ BeginRead \/ ReadContinues
    \/ Close

Modes == {"sync", "async"}

Spec == (Init /\ mode \in Modes /\ writerOpen = TRUE /\ readerOpen = TRUE) /\ [][Next]_vars

-----------------------------------------------------------------------------
(* Properties.                                                               *)

WireWords == [frame : FrameIds, place : Nat]
Reads == [part : {"header", "payload"}, need : Nat, got : Seq(WireWords)]

\* The variables have their types.
TypeOK ==
    /\ mode \in Modes
    /\ progress \in [FrameIds -> {"none", "started", "reported", "failed"}]
    /\ written \in [FrameIds -> Nat] /\ \A f \in FrameIds : written[f] <= FrameLength(f)
    /\ wire \in Seq(WireWords)
    /\ lasts \in Seq(1..Len(wire))
    /\ pos \in 0..Len(wire)
    /\ reads \in Seq(Reads)
    /\ received \in Seq(FrameIds \cup {Mixture})
    /\ writerOpen \in BOOLEAN
    /\ readerOpen \in BOOLEAN

\* A word may follow another when nobody has come between the words of a frame.
Follows(before, word) ==
    word = IF IsLast(before) THEN Word(word.frame, 1) ELSE Word(before.frame, before.place + 1)

\* The first n words of the wire are frames, one after the other.
Whole(n) ==
    \A i \in 1..n : IF i = 1 THEN wire[1].place = 1 ELSE Follows(wire[i - 1], wire[i])

\* What a read has got so far is the beginning of a header, or of a payload that
\* has the length that the read needs.
InFrame(read) ==
    LET skipped == IF read.part = "header" THEN 0 ELSE 2
        first == read.got[1]
    IN  \A i \in 1..Len(read.got) :
            /\ read.got[i] = Word(first.frame, i + skipped)
            /\ read.part = "payload" => read.need = Size[first.frame]

\* A read has got something else: the reader is somewhere inside a frame.
Astray == \E i \in 1..Len(reads) : ~InFrame(reads[i])

\* However the frames of several writers and the reads are torn and mixed, in
\* either mode, a frame that is given to the program was written to its end, and
\* none is given twice. In the sync mode the program is given nothing else, unless
\* what was read is torn (transport_handler.cpp:79, 93).
NothingInvented ==
    /\ \A i \in 1..Len(received) :
         received[i] # Mixture => written[received[i]] = FrameLength(received[i])
    /\ \A i, j \in 1..Len(received) :
         received[i] = received[j] /\ received[i] # Mixture => i = j
    /\ mode = "sync" /\ Whole(pos) => \A i \in 1..Len(received) : received[i] # Mixture

\* In the sync mode, as long as no frame that was read is torn, the frames of one
\* writer come out in the order in which it wrote them and none is skipped.
InOrder ==
    mode = "sync" /\ Whole(pos) =>
        \A i \in 1..Len(received) : received[i][2] > 1 =>
            \E j \in 1..(i - 1) : received[j] = Previous(received[i])

\* The frames that were sent to their end.
SentFrames == [k \in 1..Len(lasts) |-> wire[lasts[k]].frame]

\* With one writer in the sync mode the connection is a channel (README.md:96).
\* In the async mode nothing is claimed.
Line == INSTANCE Channel WITH
    Message <- FrameIds,
    sent <- IF mode = "sync" THEN SentFrames ELSE <<>>,
    received <- IF mode = "sync" THEN received ELSE <<>>
ImplementsChannel == Line!Spec
=============================================================================
