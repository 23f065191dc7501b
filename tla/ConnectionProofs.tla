-------------------------- MODULE ConnectionProofs --------------------------
(***************************************************************************)
(* What holds of each direction holds of the connection: every step of the *)
(* two programs is, seen from one direction, a step of Frames or none. The *)
(* steps of the other direction can close a socket, no more.               *)
(***************************************************************************)
EXTENDS Connection, TLAPS

UpProofs == INSTANCE LineProofs WITH
    Writers <- {"client"},
    progress <- upProgress, written <- upWritten, wire <- upWire, lasts <- upLasts,
    pos <- upPos, reads <- upReads, received <- upReceived,
    writerOpen <- clientOpen, readerOpen <- serverOpen

DownProofs == INSTANCE LineProofs WITH
    Writers <- {"reply", "operator"},
    progress <- downProgress, written <- downWritten, wire <- downWire, lasts <- downLasts,
    pos <- downPos, reads <- downReads, received <- downReceived,
    writerOpen <- serverOpen, readerOpen <- clientOpen

-----------------------------------------------------------------------------
(* The instances of this module are those of Connection.                     *)

LEMMA FramesAre ==
    /\ UpProofs!FrameIds = ClientFrames
    /\ DownProofs!FrameIds = {"reply", "operator"} \X (1..MaxFrames)
    /\ ReplyFrames \subseteq DownProofs!FrameIds
    /\ OperatorFrames \subseteq DownProofs!FrameIds
<1>1. 1..MaxLines \subseteq 1..MaxFrames
  BY LimitsAssumption, LinesAssumption
<1> QED
  BY <1>1 DEF UpProofs!FrameIds, DownProofs!FrameIds, ClientFrames, ReplyFrames, OperatorFrames

LEMMA UpIs ==
    /\ \A f : Up!BeginWrite(f) => UpProofs!BeginWrite(f)
    /\ \A f : Up!WriteContinues(f) => UpProofs!WriteContinues(f)
    /\ Up!BeginRead => UpProofs!BeginRead
    /\ Up!ReadContinues => UpProofs!ReadContinues
    /\ Up!Close => UpProofs!Close
<1>1. ASSUME NEW f, Up!BeginWrite(f) PROVE UpProofs!BeginWrite(f)
  BY <1>1 DEF Up!BeginWrite, Up!MayFollow, Up!Previous, Up!bytes, Up!reader, Up!ends,
              UpProofs!BeginWrite, UpProofs!MayFollow, UpProofs!Previous, UpProofs!bytes,
              UpProofs!reader, UpProofs!ends
<1>2. ASSUME NEW f, Up!WriteContinues(f) PROVE UpProofs!WriteContinues(f)
  BY <1>2 DEF Up!WriteContinues, Up!SendWord, Up!ReportWrite, Up!WriteFails, Up!Places, Up!Word,
              Up!FrameLength, Up!Previous, Up!bytes, Up!reader, Up!ends, UpProofs!WriteContinues,
              UpProofs!SendWord, UpProofs!ReportWrite, UpProofs!WriteFails, UpProofs!Places,
              UpProofs!Word, UpProofs!FrameLength, UpProofs!Previous, UpProofs!bytes,
              UpProofs!reader, UpProofs!ends
<1>3. ASSUME Up!BeginRead PROVE UpProofs!BeginRead
  BY <1>3 DEF Up!BeginRead, Up!Read, Up!writer, Up!bytes, Up!ends, UpProofs!BeginRead,
              UpProofs!Read, UpProofs!writer, UpProofs!bytes, UpProofs!ends
<1>4. ASSUME Up!ReadContinues PROVE UpProofs!ReadContinues
  <2>1. Up!Receive => UpProofs!Receive
    BY DEF Up!Receive, Up!writer, Up!ends, UpProofs!Receive, UpProofs!writer, UpProofs!ends
  <2>2. Up!ReadHeader => UpProofs!ReadHeader
    BY DEF Up!ReadHeader, Up!Complete, Up!Got, Up!Announced, Up!Read, Up!writer, Up!bytes,
           UpProofs!ReadHeader, UpProofs!Complete, UpProofs!Got, UpProofs!Announced, UpProofs!Read,
           UpProofs!writer, UpProofs!bytes
  <2>3. Up!IncorrectMagic => UpProofs!IncorrectMagic
    BY DEF Up!IncorrectMagic, Up!Complete, Up!Got, Up!FailRead, Up!writer, Up!bytes,
           UpProofs!IncorrectMagic, UpProofs!Complete, UpProofs!Got, UpProofs!FailRead,
           UpProofs!writer, UpProofs!bytes
  <2>4. Up!ReadPayload => UpProofs!ReadPayload
    BY DEF Up!ReadPayload, Up!Complete, Up!Got, Up!Payload, Up!Word, Up!FrameIds, Up!writer,
           Up!bytes, UpProofs!ReadPayload, UpProofs!Complete, UpProofs!Got, UpProofs!Payload,
           UpProofs!Word, UpProofs!FrameIds, UpProofs!writer, UpProofs!bytes
  <2>5. Up!ReadMixture => UpProofs!ReadMixture
    BY DEF Up!ReadMixture, Up!Complete, Up!Got, Up!Mixed, Up!Mixture, Up!Payload, Up!Word,
           Up!FrameIds, Up!writer, Up!bytes, UpProofs!ReadMixture, UpProofs!Complete, UpProofs!Got,
           UpProofs!Mixed, UpProofs!Mixture, UpProofs!Payload, UpProofs!Word, UpProofs!FrameIds,
           UpProofs!writer, UpProofs!bytes
  <2>6. ASSUME NEW ec \in {"syntax", "other"}, Up!ReadNoJson(ec) PROVE UpProofs!ReadNoJson(ec)
    BY <2>6 DEF Up!ReadNoJson, Up!Complete, Up!Got, Up!Mixed, Up!Payload, Up!Word, Up!FrameIds,
                Up!FailRead, Up!check_error, Up!ErrorCodes, Up!writer, Up!bytes,
                UpProofs!ReadNoJson, UpProofs!Complete, UpProofs!Got, UpProofs!Mixed,
                UpProofs!Payload, UpProofs!Word, UpProofs!FrameIds, UpProofs!FailRead,
                UpProofs!check_error, UpProofs!ErrorCodes, UpProofs!writer, UpProofs!bytes
  <2>7. Up!ReadError => UpProofs!ReadError
    BY DEF Up!ReadError, Up!FailRead, Up!writer, Up!bytes, UpProofs!ReadError, UpProofs!FailRead,
           UpProofs!writer, UpProofs!bytes
  <2> QED
    BY <1>4, <2>1, <2>2, <2>3, <2>4, <2>5, <2>6, <2>7 DEF Up!ReadContinues, UpProofs!ReadContinues
<1>5. ASSUME Up!Close PROVE UpProofs!Close
  BY <1>5 DEF Up!Close, Up!writer, Up!bytes, Up!reader, UpProofs!Close, UpProofs!writer,
              UpProofs!bytes, UpProofs!reader
<1> QED
  BY <1>1, <1>2, <1>3, <1>4, <1>5

LEMMA DownIs ==
    /\ \A f : Down!BeginWrite(f) => DownProofs!BeginWrite(f)
    /\ \A f : Down!WriteContinues(f) => DownProofs!WriteContinues(f)
    /\ Down!BeginRead => DownProofs!BeginRead
    /\ Down!ReadContinues => DownProofs!ReadContinues
    /\ Down!Close => DownProofs!Close
<1>1. ASSUME NEW f, Down!BeginWrite(f) PROVE DownProofs!BeginWrite(f)
  BY <1>1 DEF Down!BeginWrite, Down!MayFollow, Down!Previous, Down!bytes, Down!reader, Down!ends,
              DownProofs!BeginWrite, DownProofs!MayFollow, DownProofs!Previous, DownProofs!bytes,
              DownProofs!reader, DownProofs!ends
<1>2. ASSUME NEW f, Down!WriteContinues(f) PROVE DownProofs!WriteContinues(f)
  BY <1>2 DEF Down!WriteContinues, Down!SendWord, Down!ReportWrite, Down!WriteFails, Down!Places,
              Down!Word, Down!FrameLength, Down!Previous, Down!bytes, Down!reader, Down!ends,
              DownProofs!WriteContinues, DownProofs!SendWord, DownProofs!ReportWrite,
              DownProofs!WriteFails, DownProofs!Places, DownProofs!Word, DownProofs!FrameLength,
              DownProofs!Previous, DownProofs!bytes, DownProofs!reader, DownProofs!ends
<1>3. ASSUME Down!BeginRead PROVE DownProofs!BeginRead
  BY <1>3 DEF Down!BeginRead, Down!Read, Down!writer, Down!bytes, Down!ends, DownProofs!BeginRead,
              DownProofs!Read, DownProofs!writer, DownProofs!bytes, DownProofs!ends
<1>4. ASSUME Down!ReadContinues PROVE DownProofs!ReadContinues
  <2>1. Down!Receive => DownProofs!Receive
    BY DEF Down!Receive, Down!writer, Down!ends, DownProofs!Receive, DownProofs!writer,
           DownProofs!ends
  <2>2. Down!ReadHeader => DownProofs!ReadHeader
    BY DEF Down!ReadHeader, Down!Complete, Down!Got, Down!Announced, Down!Read, Down!writer,
           Down!bytes, DownProofs!ReadHeader, DownProofs!Complete, DownProofs!Got,
           DownProofs!Announced, DownProofs!Read, DownProofs!writer, DownProofs!bytes
  <2>3. Down!IncorrectMagic => DownProofs!IncorrectMagic
    BY DEF Down!IncorrectMagic, Down!Complete, Down!Got, Down!FailRead, Down!writer, Down!bytes,
           DownProofs!IncorrectMagic, DownProofs!Complete, DownProofs!Got, DownProofs!FailRead,
           DownProofs!writer, DownProofs!bytes
  <2>4. Down!ReadPayload => DownProofs!ReadPayload
    BY DEF Down!ReadPayload, Down!Complete, Down!Got, Down!Payload, Down!Word, Down!FrameIds,
           Down!writer, Down!bytes, DownProofs!ReadPayload, DownProofs!Complete, DownProofs!Got,
           DownProofs!Payload, DownProofs!Word, DownProofs!FrameIds, DownProofs!writer,
           DownProofs!bytes
  <2>5. Down!ReadMixture => DownProofs!ReadMixture
    BY DEF Down!ReadMixture, Down!Complete, Down!Got, Down!Mixed, Down!Mixture, Down!Payload,
           Down!Word, Down!FrameIds, Down!writer, Down!bytes, DownProofs!ReadMixture,
           DownProofs!Complete, DownProofs!Got, DownProofs!Mixed, DownProofs!Mixture,
           DownProofs!Payload, DownProofs!Word, DownProofs!FrameIds, DownProofs!writer,
           DownProofs!bytes
  <2>6. ASSUME NEW ec \in {"syntax", "other"}, Down!ReadNoJson(ec) PROVE DownProofs!ReadNoJson(ec)
    BY <2>6 DEF Down!ReadNoJson, Down!Complete, Down!Got, Down!Mixed, Down!Payload, Down!Word,
                Down!FrameIds, Down!FailRead, Down!check_error, Down!ErrorCodes, Down!writer,
                Down!bytes, DownProofs!ReadNoJson, DownProofs!Complete, DownProofs!Got,
                DownProofs!Mixed, DownProofs!Payload, DownProofs!Word, DownProofs!FrameIds,
                DownProofs!FailRead, DownProofs!check_error, DownProofs!ErrorCodes,
                DownProofs!writer, DownProofs!bytes
  <2>7. Down!ReadError => DownProofs!ReadError
    BY DEF Down!ReadError, Down!FailRead, Down!writer, Down!bytes, DownProofs!ReadError,
           DownProofs!FailRead, DownProofs!writer, DownProofs!bytes
  <2> QED
    BY <1>4, <2>1, <2>2, <2>3, <2>4, <2>5, <2>6, <2>7 DEF Down!ReadContinues, DownProofs!ReadContinues
<1>5. ASSUME Down!Close PROVE DownProofs!Close
  BY <1>5 DEF Down!Close, Down!writer, Down!bytes, Down!reader, DownProofs!Close,
              DownProofs!writer, DownProofs!bytes, DownProofs!reader
<1> QED
  BY <1>1, <1>2, <1>3, <1>4, <1>5

\* The assumptions on the constants are what the proofs about a direction need.
LEMMA AreBounded == UpProofs!Bounded /\ DownProofs!Bounded
<1>1. \A f \in (Users \cup {"reply"}) \X (1..MaxFrames) : Size[f] \in Nat \ {0}
  BY SizeAssumption
<1>2. /\ UpProofs!FrameIds \subseteq (Users \cup {"reply"}) \X (1..MaxFrames)
      /\ DownProofs!FrameIds \subseteq (Users \cup {"reply"}) \X (1..MaxFrames)
  BY DEF UpProofs!FrameIds, DownProofs!FrameIds, Users
<1> QED
  BY <1>1, <1>2, LimitsAssumption, SizeAssumption DEF UpProofs!Bounded, DownProofs!Bounded

-----------------------------------------------------------------------------
(* What one direction sees of the other.                                     *)

OpenType == clientOpen \in BOOLEAN /\ serverOpen \in BOOLEAN
UpStep == [UpProofs!Next]_(UpProofs!vars)
DownStep == [DownProofs!Next]_(DownProofs!vars)

\* At most one of the two sockets changes, and it is closed.
AtMostCloses ==
    /\ mode' = mode
    /\ \/ UNCHANGED <<clientOpen, serverOpen>>
       \/ clientOpen' = FALSE /\ serverOpen' = serverOpen
       \/ serverOpen' = FALSE /\ clientOpen' = clientOpen

LEMMA UpActs ==
    /\ \A f \in UpProofs!FrameIds : Up!BeginWrite(f) => UpStep /\ AtMostCloses
    /\ \A f \in UpProofs!FrameIds : Up!WriteContinues(f) => UpStep /\ AtMostCloses
    /\ Up!BeginRead => UpStep /\ AtMostCloses
    /\ Up!ReadContinues => UpStep /\ AtMostCloses
    /\ Up!Close => UpStep /\ AtMostCloses
<1>1. /\ \A f : Up!BeginWrite(f) => AtMostCloses
      /\ \A f : Up!WriteContinues(f) => AtMostCloses
      /\ Up!BeginRead => AtMostCloses
      /\ Up!ReadContinues => AtMostCloses
      /\ Up!Close => AtMostCloses
  BY DEF AtMostCloses, Up!BeginWrite, Up!WriteContinues, Up!SendWord, Up!ReportWrite,
         Up!WriteFails, Up!BeginRead, Up!ReadContinues, Up!Receive, Up!ReadHeader,
         Up!IncorrectMagic, Up!ReadPayload, Up!ReadMixture, Up!ReadNoJson, Up!ReadError,
         Up!Complete, Up!FailRead, Up!Close, Up!ends
<1>2. /\ \A f \in UpProofs!FrameIds : UpProofs!BeginWrite(f) => UpStep
      /\ \A f \in UpProofs!FrameIds : UpProofs!WriteContinues(f) => UpStep
      /\ UpProofs!BeginRead \/ UpProofs!ReadContinues \/ UpProofs!Close => UpStep
  BY DEF UpStep, UpProofs!Next
<1> QED
  BY <1>1, <1>2, UpIs

LEMMA DownActs ==
    /\ \A f \in DownProofs!FrameIds : Down!BeginWrite(f) => DownStep /\ AtMostCloses
    /\ \A f \in DownProofs!FrameIds : Down!WriteContinues(f) => DownStep /\ AtMostCloses
    /\ Down!BeginRead => DownStep /\ AtMostCloses
    /\ Down!ReadContinues => DownStep /\ AtMostCloses
    /\ Down!Close => DownStep /\ AtMostCloses
<1>1. /\ \A f : Down!BeginWrite(f) => AtMostCloses
      /\ \A f : Down!WriteContinues(f) => AtMostCloses
      /\ Down!BeginRead => AtMostCloses
      /\ Down!ReadContinues => AtMostCloses
      /\ Down!Close => AtMostCloses
  BY DEF AtMostCloses, Down!BeginWrite, Down!WriteContinues, Down!SendWord, Down!ReportWrite,
         Down!WriteFails, Down!BeginRead, Down!ReadContinues, Down!Receive, Down!ReadHeader,
         Down!IncorrectMagic, Down!ReadPayload, Down!ReadMixture, Down!ReadNoJson, Down!ReadError,
         Down!Complete, Down!FailRead, Down!Close, Down!ends
<1>2. /\ \A f \in DownProofs!FrameIds : DownProofs!BeginWrite(f) => DownStep
      /\ \A f \in DownProofs!FrameIds : DownProofs!WriteContinues(f) => DownStep
      /\ DownProofs!BeginRead \/ DownProofs!ReadContinues \/ DownProofs!Close => DownStep
  BY DEF DownStep, DownProofs!Next
<1> QED
  BY <1>1, <1>2, DownIs

LEMMA UpSeesClose ==
    ASSUME OpenType, AtMostCloses, UNCHANGED upVars
    PROVE  UpStep
<1>1. UNCHANGED <<mode, UpProofs!writer, UpProofs!bytes, UpProofs!reader>>
  BY DEF AtMostCloses, upVars, UpProofs!writer, UpProofs!bytes, UpProofs!reader
<1>2. CASE UNCHANGED <<clientOpen, serverOpen>>
  BY <1>1, <1>2 DEF UpStep, UpProofs!vars, UpProofs!ends
<1>3. CASE clientOpen /\ clientOpen' = FALSE /\ serverOpen' = serverOpen
  BY <1>1, <1>3 DEF UpStep, UpProofs!Next, UpProofs!Close
<1>4. CASE serverOpen /\ serverOpen' = FALSE /\ clientOpen' = clientOpen
  BY <1>1, <1>4 DEF UpStep, UpProofs!Next, UpProofs!Close
<1> QED
  BY <1>2, <1>3, <1>4 DEF AtMostCloses, OpenType

LEMMA DownSeesClose ==
    ASSUME OpenType, AtMostCloses, UNCHANGED downVars
    PROVE  DownStep
<1>1. UNCHANGED <<mode, DownProofs!writer, DownProofs!bytes, DownProofs!reader>>
  BY DEF AtMostCloses, downVars, DownProofs!writer, DownProofs!bytes, DownProofs!reader
<1>2. CASE UNCHANGED <<clientOpen, serverOpen>>
  BY <1>1, <1>2 DEF DownStep, DownProofs!vars, DownProofs!ends
<1>3. CASE clientOpen /\ clientOpen' = FALSE /\ serverOpen' = serverOpen
  BY <1>1, <1>3 DEF DownStep, DownProofs!Next, DownProofs!Close
<1>4. CASE serverOpen /\ serverOpen' = FALSE /\ clientOpen' = clientOpen
  BY <1>1, <1>4 DEF DownStep, DownProofs!Next, DownProofs!Close
<1> QED
  BY <1>2, <1>3, <1>4 DEF AtMostCloses, OpenType

-----------------------------------------------------------------------------
(* A step of the connection is a step of each direction.                     *)

LEMMA Step == ASSUME OpenType, [Next]_vars PROVE OpenType' /\ AtMostCloses /\ UpStep /\ DownStep
<1> DEFINE Seen == AtMostCloses /\ UpStep /\ DownStep
<1>0. AtMostCloses => OpenType'
  BY DEF OpenType, AtMostCloses
<1>1. ASSUME NEW f \in ClientFrames, NEW word, ClientWrites(f, word) PROVE Seen
  BY <1>1, FramesAre, UpActs, DownSeesClose DEF ClientWrites
<1>2. ASSUME NEW f \in OperatorFrames, NEW word, OperatorWrites(f, word) PROVE Seen
  BY <1>2, FramesAre, DownActs, UpSeesClose DEF OperatorWrites
<1>3. CASE ClientWriteContinues
  BY <1>0, <1>3, FramesAre, UpActs, DownSeesClose DEF ClientWriteContinues, dataVars
<1>4. CASE OperatorWriteContinues
  BY <1>0, <1>4, FramesAre, DownActs, UpSeesClose DEF OperatorWriteContinues
<1>5. CASE ServerReads \/ ServerReadContinues
  BY <1>0, <1>5, UpActs, DownSeesClose DEF ServerReads, ServerReadContinues
<1>6. CASE Reply
  BY <1>0, <1>6, FramesAre, DownActs, UpSeesClose DEF Reply
<1>7. CASE ReplyContinues
  BY <1>0, <1>7, FramesAre, DownActs, UpSeesClose DEF ReplyContinues
<1>8. CASE ClientTask
  BY <1>0, <1>8, DownActs, UpSeesClose DEF ClientTask, ClientReads, ClientReadContinues
<1>9. CASE Disconnect
  BY <1>0, <1>9, UpActs, DownSeesClose DEF Disconnect
<1>10. CASE UNCHANGED vars
  <2>1. AtMostCloses /\ UNCHANGED upVars /\ UNCHANGED downVars
    BY <1>10 DEF vars, AtMostCloses
  <2> QED
    BY <1>0, <2>1, UpSeesClose, DownSeesClose
<1> QED
  BY <1>0, <1>1, <1>2, <1>3, <1>4, <1>5, <1>6, <1>7, <1>8, <1>9, <1>10 DEF Next, SessionWork, Ended

-----------------------------------------------------------------------------
(* The theorems.                                                             *)

LEMMA InitSeen ==
    Init => /\ OpenType
            /\ UpProofs!Init /\ DownProofs!Init /\ mode \in UpProofs!Modes /\ mode \in DownProofs!Modes
            /\ clientOpen = TRUE /\ serverOpen = TRUE
<1> SUFFICES ASSUME Init
             PROVE  /\ OpenType
                    /\ UpProofs!Init /\ DownProofs!Init
                    /\ mode \in UpProofs!Modes /\ mode \in DownProofs!Modes
                    /\ clientOpen = TRUE /\ serverOpen = TRUE
  OBVIOUS
<1>1. UpProofs!Init
  BY DEF Init, Up!Init, UpProofs!Init, Up!FrameIds, UpProofs!FrameIds
<1>2. DownProofs!Init
  BY DEF Init, Down!Init, DownProofs!Init, Down!FrameIds, DownProofs!FrameIds
<1> QED
  BY <1>1, <1>2 DEF Init, OpenType, UpProofs!Modes, DownProofs!Modes

\* Seen from one direction, the connection is Frames: the client's lines with one
\* writer, the server's with two who take no lock.
THEOREM EachDirection == Spec => UpProofs!Spec /\ DownProofs!Spec
<1>1. OpenType /\ [Next]_vars
        => OpenType' /\ [UpProofs!Next]_(UpProofs!vars) /\ [DownProofs!Next]_(DownProofs!vars)
  BY Step DEF UpStep, DownStep
<1> QED
  BY <1>1, InitSeen, PTL DEF Spec, UpProofs!Spec, DownProofs!Spec

\* What is said of the words of a direction is the same here and there.
LEMMA WholeAre ==
    /\ \A n : Up!Whole(n) <=> UpProofs!Whole(n)
    /\ \A n : Down!Whole(n) <=> DownProofs!Whole(n)
    /\ Up!Astray <=> UpProofs!Astray
    /\ Down!Astray <=> DownProofs!Astray
<1>1. \A n : Up!Whole(n) <=> UpProofs!Whole(n)
  BY DEF Up!Whole, Up!Follows, Up!IsLast, Up!Word, Up!FrameLength, UpProofs!Whole,
         UpProofs!Follows, UpProofs!IsLast, UpProofs!Word, UpProofs!FrameLength
<1>2. \A n : Down!Whole(n) <=> DownProofs!Whole(n)
  BY DEF Down!Whole, Down!Follows, Down!IsLast, Down!Word, Down!FrameLength, DownProofs!Whole,
         DownProofs!Follows, DownProofs!IsLast, DownProofs!Word, DownProofs!FrameLength
<1>3. Up!Astray <=> UpProofs!Astray
  BY DEF Up!Astray, UpProofs!Astray, Up!InFrame, UpProofs!InFrame, Up!Word, UpProofs!Word
<1>4. Down!Astray <=> DownProofs!Astray
  BY DEF Down!Astray, DownProofs!Astray, Down!InFrame, DownProofs!InFrame, Down!Word, DownProofs!Word
<1> QED
  BY <1>1, <1>2, <1>3, <1>4

\* No program is given a frame that was not written to its end, or one twice, in
\* either mode, although the server's threads write without a lock; and in the sync
\* mode nothing else, until something torn is read.
THEOREM NoneInvented == Spec => []NothingInvented
<1>1. UpProofs!Bounded /\ DownProofs!Bounded
  BY AreBounded
<1>2. UpProofs!NothingInvented /\ DownProofs!NothingInvented => NothingInvented
  <2>1. UpProofs!NothingInvented => Up!NothingInvented
    BY WholeAre DEF Up!NothingInvented, UpProofs!NothingInvented, Up!Mixture, UpProofs!Mixture,
                    Up!FrameLength, UpProofs!FrameLength
  <2>2. DownProofs!NothingInvented => Down!NothingInvented
    BY WholeAre DEF Down!NothingInvented, DownProofs!NothingInvented, Down!Mixture,
                    DownProofs!Mixture, Down!FrameLength, DownProofs!FrameLength
  <2> QED
    BY <2>1, <2>2 DEF NothingInvented
<1> QED
  BY <1>1, <1>2, EachDirection, UpProofs!NoneInvented, DownProofs!NoneInvented, PTL

\* In the sync mode each thread's frames arrive in order without a gap, as long as
\* what was read is not torn. From the client to the server nothing ever is.
THEOREM DeliveredInOrder == Spec => []InOrder
<1>1. UpProofs!Bounded /\ DownProofs!Bounded
  BY AreBounded
<1>2. UpProofs!InOrder /\ DownProofs!InOrder => InOrder
  <2>1. UpProofs!InOrder => Up!InOrder
    BY WholeAre DEF Up!InOrder, UpProofs!InOrder, Up!Previous, UpProofs!Previous
  <2>2. DownProofs!InOrder => Down!InOrder
    BY WholeAre DEF Down!InOrder, DownProofs!InOrder, Down!Previous, DownProofs!Previous
  <2> QED
    BY <2>1, <2>2 DEF InOrder
<1> QED
  BY <1>1, <1>2, EachDirection, UpProofs!DeliveredInOrder, DownProofs!DeliveredInOrder, PTL

\* What the client's user types in the sync mode reaches the server through a
\* Channel, whatever happens in the other direction.
THEOREM UpChannel == Spec => UpIsChannel
<1>1. UpProofs!Bounded
  BY AreBounded
<1>2. UpProofs!OneWriter
  BY DEF UpProofs!OneWriter, UpProofs!FrameIds
<1>3. UpProofs!ImplementsChannel => UpIsChannel
  <2>1. UpProofs!Line!Init => Up!Line!Init
    BY DEF UpProofs!Line!Init, Up!Line!Init, UpProofs!SentFrames, Up!SentFrames
  <2>2. [UpProofs!Line!Next]_(UpProofs!Line!vars) => [Up!Line!Next]_(Up!Line!vars)
    BY DEF UpProofs!Line!Next, Up!Line!Next, UpProofs!Line!Send, Up!Line!Send,
           UpProofs!Line!Receive, Up!Line!Receive, UpProofs!Line!vars, Up!Line!vars,
           UpProofs!SentFrames, Up!SentFrames, UpProofs!FrameIds, Up!FrameIds
  <2> QED
    BY <2>1, <2>2, PTL DEF UpIsChannel, Up!ImplementsChannel, UpProofs!ImplementsChannel,
                           Up!Line!Spec, UpProofs!Line!Spec
<1> QED
  BY <1>1, <1>2, <1>3, EachDirection, UpProofs!LineIsChannel, PTL

-----------------------------------------------------------------------------
(* A stream is torn by two writers.                                          *)

\* On the way to the client, only replies and the operator's lines are begun.
OnlyTheirs ==
    \A f \in DownProofs!FrameIds :
        downProgress[f] # "none" => f \in ReplyFrames \cup OperatorFrames

\* A write changes the progress of its frame only.
LEMMA OthersStay ==
    ASSUME DownProofs!TypeOK, NEW f, Down!BeginWrite(f) \/ Down!WriteContinues(f)
    PROVE  \A g \in DownProofs!FrameIds : g # f => downProgress'[g] = downProgress[g]
BY DEF DownProofs!TypeOK, Down!BeginWrite, Down!WriteContinues, Down!SendWord, Down!ReportWrite,
       Down!WriteFails

LEMMA OnlyTheirsStep ==
    ASSUME DownProofs!TypeOK, OnlyTheirs, [Next]_vars
    PROVE  OnlyTheirs'
<1>1. ASSUME NEW f \in ReplyFrames \cup OperatorFrames,
             Down!BeginWrite(f) \/ Down!WriteContinues(f)
      PROVE  OnlyTheirs'
  <2>1. \A g \in DownProofs!FrameIds : g # f => downProgress'[g] = downProgress[g]
    BY <1>1, OthersStay
  <2> QED
    BY <2>1 DEF OnlyTheirs
<1>2. ASSUME downProgress' = downProgress PROVE OnlyTheirs'
  BY <1>2 DEF OnlyTheirs
<1>3. CASE ClientTask
  <2>1. downProgress' = downProgress
    BY <1>3 DEF ClientTask, ClientReads, ClientReadContinues, Down!BeginRead, Down!ReadContinues,
                Down!Receive, Down!ReadHeader, Down!IncorrectMagic, Down!ReadPayload,
                Down!ReadMixture, Down!ReadNoJson, Down!ReadError, Down!Complete, Down!writer
  <2> QED
    BY <1>2, <2>1
<1>4. CASE \/ \E f \in ClientFrames : \E word \in WordsOf(f) : ClientWrites(f, word)
           \/ ClientWriteContinues \/ ServerReads \/ ServerReadContinues \/ Disconnect
           \/ UNCHANGED vars
  BY <1>2, <1>4 DEF ClientWrites, ClientWriteContinues, ServerReads, ServerReadContinues,
                    Disconnect, vars, downVars
<1>5. CASE \/ \E f \in OperatorFrames : \E word \in WordsOf(f) : OperatorWrites(f, word)
           \/ OperatorWriteContinues \/ Reply \/ ReplyContinues
  BY <1>1, <1>5 DEF OperatorWrites, OperatorWriteContinues, Reply, ReplyContinues
<1> QED
  BY <1>3, <1>4, <1>5 DEF Next, SessionWork, Ended

\* A stream is torn, and its reader somewhere inside a frame, only when two
\* threads of the server have written to it.
THEOREM TornByTheServer == Spec => []TornNeedsTwoWriters
<1>1. UpProofs!Bounded /\ DownProofs!Bounded
  BY AreBounded
<1>2. Init => OnlyTheirs
  BY DEF Init, Down!Init, Down!FrameIds, DownProofs!FrameIds, OnlyTheirs
<1>3. DownProofs!TypeOK /\ OnlyTheirs /\ [Next]_vars => OnlyTheirs'
  BY OnlyTheirsStep
<1>4. UpProofs!Alone
  BY DEF UpProofs!Alone, UpProofs!FrameIds
<1>5. OnlyTheirs /\ ~DownProofs!Alone =>
        /\ \E f \in OperatorFrames : downProgress[f] # "none"
        /\ \E f \in ReplyFrames : downProgress[f] # "none"
  <2> SUFFICES ASSUME OnlyTheirs, NEW f \in DownProofs!FrameIds, NEW g \in DownProofs!FrameIds,
                      downProgress[f] # "none", downProgress[g] # "none", f[1] # g[1]
               PROVE  /\ \E h \in OperatorFrames : downProgress[h] # "none"
                      /\ \E h \in ReplyFrames : downProgress[h] # "none"
    BY DEF DownProofs!Alone, DownProofs!Begun
  <2>1. \A h \in ReplyFrames : h[1] = "reply"
    BY DEF ReplyFrames
  <2>2. \A h \in OperatorFrames : h[1] = "operator"
    BY DEF OperatorFrames
  <2> QED
    BY <2>1, <2>2 DEF OnlyTheirs
<1>6. /\ OnlyTheirs
      /\ mode = "sync" /\ UpProofs!Alone =>
           UpProofs!Whole(Len(upWire)) /\ ~UpProofs!Astray
      /\ mode = "sync" /\ DownProofs!Alone =>
           DownProofs!Whole(Len(downWire)) /\ ~DownProofs!Astray
      => TornNeedsTwoWriters
  BY <1>4, <1>5, WholeAre DEF TornNeedsTwoWriters, Torn
<1> QED
  BY <1>1, <1>2, <1>3, <1>6, EachDirection, DownProofs!TypeCorrect, UpProofs!TornByTwo,
     DownProofs!TornByTwo, PTL DEF Spec
=============================================================================
