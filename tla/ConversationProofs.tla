------------------------- MODULE ConversationProofs -------------------------
(***************************************************************************)
(* What is said over the connection: the requests that arrive, what        *)
(* sessionWork owes for them, and the replies that the client is given.    *)
(***************************************************************************)
EXTENDS ConnectionProofs, FiniteSetTheorems

Questions == {Question(word) : word \in RequestWords}
AnswersGiven == {Answer(word) : word \in RequestWords}

\* The users type words.
SaidInv == said \in [ClientFrames \cup OperatorFrames -> Words \cup {"nothing"}]

\* A reply that was begun is one that sessionWork has made.
RepliesNumbered == \A f \in ReplyFrames : downProgress[f] # "none" => f[2] <= Len(replies)

\* The requests that sessionWork was given are answered or are about to be; in the
\* async mode a document that is put together from several may be taken for one.
Given(n) == \E i \in 1..Len(upReceived) : upReceived[i] = <<"client", n>>
Got == {n \in 1..MaxFrames : Requested(n) /\ Given(n)}
Counted ==
    /\ unanswered \in Seq(Questions) /\ replies \in Seq(AnswersGiven)
    /\ Len(replies) <= MaxFrames
    /\ Len(replies) + Len(unanswered) <= Cardinality(Got) + Mixtures
    /\ mode = "sync" => Len(replies) + Len(unanswered) = Cardinality(Got)

\* In the sync mode the k-th of them, answered or not, is what the k-th request
\* of the user asks for.
Owed == Len(replies) + Len(unanswered)
Kth(k) ==
    IF k <= Len(replies) THEN replies[k].class ELSE unanswered[k - Len(replies)].class
InTurn ==
    mode = "sync" =>
        \A k \in 1..Owed : \E n \in 1..Len(upReceived) :
            Requested(n) /\ NumberOf(n) = k /\ said[<<"client", n>>] = Kth(k)

\* The inductive invariant. It rests on what is known of the two directions.
TalkInv == SaidInv /\ RepliesNumbered /\ Counted /\ InTurn

InPlace ==
    mode = "sync" => \A i \in 1..Len(upReceived) : upReceived[i] = <<"client", i>>
FramesInv ==
    /\ UpProofs!TypeOK /\ DownProofs!TypeOK
    /\ UpProofs!NothingInvented /\ DownProofs!NothingInvented
    /\ UpProofs!WrittenBegun /\ DownProofs!WrittenBegun
    /\ InPlace

-----------------------------------------------------------------------------
(* Messages.                                                                 *)

\* A request survives the two conversions and is answered with a whole response,
\* which survives them too.
LEMMA Conversions ==
    ASSUME NEW word \in RequestWords
    PROVE  /\ understoodAs(say(word)) = Question(word)
           /\ isAnswered(Question(word))
           /\ createResponse(Question(word)) = Answer(word)
           /\ understoodAs(Answer(word)) = Answer(word)
           /\ Question(word).class = word /\ Answer(word).class = word
<1>1. understoodAs(say(word)) = Question(word)
  <2>1. say(word) = Message("base", word, "Request", "none")
    BY DEF say, RequestWords
  <2>2. serialize(say(word)) = [type |-> word, transaction |-> 0, fields |-> {}, body |-> "none"]
    BY <2>1 DEF serialize, Message, transactionNumber, fieldNames
  <2> QED
    BY <2>2 DEF understoodAs, createMessage, setTypeTransaction, needs, bodyOf, Question, RequestWords
<1>2. isAnswered(Question(word))
  BY DEF isAnswered, Question, Message, RequestWords
<1>3. createResponse(Question(word)) = Answer(word)
  BY DEF createResponse, Question, Answer, Message, RequestWords
<1>4. understoodAs(Answer(word)) = Answer(word)
  <2>1. CASE word = "signal"
    <3>1. serialize(Answer(word)) =
            [type |-> "signal", transaction |-> 1, fields |-> {"central_Freq", "signal"}, body |-> "data"]
      BY <2>1 DEF serialize, Answer, Message, transactionNumber, fieldNames
    <3> QED
      BY <2>1, <3>1 DEF understoodAs, createMessage, setTypeTransaction, needs, bodyOf, Answer
  <2>2. CASE word = "information"
    <3>1. serialize(Answer(word)) =
            [type |-> "information", transaction |-> 1, fields |-> {"numberCore"}, body |-> "data"]
      BY <2>2 DEF serialize, Answer, Message, transactionNumber, fieldNames
    <3> QED
      BY <2>2, <3>1 DEF understoodAs, createMessage, setTypeTransaction, needs, bodyOf, Answer
  <2> QED
    BY <2>1, <2>2 DEF RequestWords
<1> QED
  BY <1>1, <1>2, <1>3, <1>4 DEF Question, Answer, Message

\* Any other line arrives as raw data and is not answered.
LEMMA RawConversion ==
    /\ understoodAs(say("text")) = say("text")
    /\ \A word : word \notin RequestWords => ~isAnswered(understoodAs(say(word)))
<1>1. ASSUME NEW word, word \notin RequestWords
      PROVE  /\ say(word) = Message("raw", "raw", "Response", "data")
             /\ understoodAs(say(word)) = say(word)
  <2>1. say(word) = Message("raw", "raw", "Response", "data")
    BY <1>1 DEF say, RequestWords
  <2>2. serialize(say(word)) =
          [type |-> "raw", transaction |-> 1, fields |-> {"data"}, body |-> "data"]
    BY <2>1 DEF serialize, Message, transactionNumber, fieldNames
  <2> QED
    BY <2>1, <2>2 DEF understoodAs, createMessage, setTypeTransaction, needs, bodyOf
<1>2. "text" \notin RequestWords
  BY DEF RequestWords
<1> QED
  BY <1>1, <1>2 DEF isAnswered, Message

\* What a frame of the client's user is understood as.
LEMMA ClientUnderstood ==
    ASSUME NEW n \in 1..MaxFrames
    PROVE  /\ Requested(n) => /\ understood(<<"client", n>>) = Question(said[<<"client", n>>])
                              /\ isAnswered(understood(<<"client", n>>))
           /\ ~Requested(n) => ~isAnswered(understood(<<"client", n>>))
<1>1. understood(<<"client", n>>) = understoodAs(say(said[<<"client", n>>]))
  BY DEF understood
<1>2. Requested(n) <=> said[<<"client", n>>] \in RequestWords
  BY DEF Requested, RequestWords
<1> QED
  BY <1>1, <1>2, Conversions, RawConversion

\* What is put together from lines is taken for a request of the user, or for
\* something that is not answered.
LEMMA MixtureUnderstood ==
    ASSUME SaidInv, NEW m \in readings(Up!Mixture), isAnswered(m)
    PROVE  m \in Questions
<1>1. ~isAnswered(NullMessage)
  BY DEF isAnswered, NullMessage, Message
<1>2. PICK g \in ClientFrames : m = understood(g)
  BY <1>1 DEF readings
<1>3. PICK n \in 1..MaxFrames : g = <<"client", n>>
  BY DEF ClientFrames
<1>4. Requested(n) /\ m = Question(said[g])
  BY <1>2, <1>3, ClientUnderstood
<1> QED
  BY <1>3, <1>4 DEF Requested, Questions

\* A line of the client's user is not such a thing.
LEMMA LineIsNoMixture ==
    /\ \A n : <<"client", n>> # Up!Mixture
    /\ Up!Mixture = UpProofs!Mixture
    /\ Down!Mixture = DownProofs!Mixture /\ Down!Mixture[1] # "reply"
BY DEF Up!Mixture, UpProofs!Mixture, Down!Mixture, DownProofs!Mixture

-----------------------------------------------------------------------------
(* Counting.                                                                 *)

LEMMA Finite ==
    /\ MaxFrames \in Nat
    /\ \A n \in Nat : IsFiniteSet({i \in 1..n : Requested(i)})
    /\ IsFiniteSet(Got) /\ Cardinality(Got) <= NumberOf(MaxFrames)
    /\ Cardinality(Got) \in Nat /\ NumberOf(MaxFrames) \in Nat /\ NumberOf(MaxFrames) <= MaxFrames
<1>1. MaxFrames \in Nat
  BY LimitsAssumption
<1>2. \A n \in Nat : IsFiniteSet({i \in 1..n : Requested(i)})
  <2> SUFFICES ASSUME NEW n \in Nat PROVE IsFiniteSet({i \in 1..n : Requested(i)})
    OBVIOUS
  <2>1. IsFiniteSet(1..n)
    BY FS_Interval
  <2> QED
    BY <2>1, FS_Subset
<1> DEFINE R == {i \in 1..MaxFrames : Requested(i)}
<1>3. IsFiniteSet(R) /\ Got \in SUBSET R
  BY <1>1, <1>2 DEF Got
<1>4. IsFiniteSet(Got) /\ Cardinality(Got) <= Cardinality(R)
  BY <1>3, FS_Subset
<1>5. IsFiniteSet(1..MaxFrames) /\ Cardinality(1..MaxFrames) = MaxFrames
  BY <1>1, FS_Interval
<1>6. Cardinality(R) <= MaxFrames
  <2>1. R \in SUBSET (1..MaxFrames)
    OBVIOUS
  <2> QED
    BY <1>5, <2>1, FS_Subset
<1>7. Cardinality(Got) \in Nat /\ Cardinality(R) \in Nat
  BY <1>3, <1>4, FS_CardinalityType
<1> QED
  BY <1>1, <1>2, <1>4, <1>6, <1>7 DEF NumberOf

\* Everything that arrives is a line of the client's user, or put together from them.
LEMMA Arrived ==
    ASSUME UpProofs!TypeOK
    PROVE  /\ upReceived \in Seq(ClientFrames \cup {Up!Mixture}) /\ Len(upReceived) \in Nat
           /\ \A i \in 1..Len(upReceived) :
                upReceived[i] # Up!Mixture => \E n \in 1..MaxFrames : upReceived[i] = <<"client", n>>
<1>1. upReceived \in Seq(ClientFrames \cup {Up!Mixture})
  BY FramesAre, LineIsNoMixture DEF UpProofs!TypeOK
<1> QED
  BY <1>1 DEF ClientFrames

\* A frame that was given is one that was begun.
LEMMA GivenBegun ==
    ASSUME FramesInv, NEW i \in 1..Len(upReceived), upReceived[i] # Up!Mixture
    PROVE  upProgress[upReceived[i]] # "none"
<1>1. upReceived[i] \in UpProofs!FrameIds
  BY Arrived, FramesAre DEF FramesInv, ClientFrames
<1>2. upWritten[upReceived[i]] = UpProofs!FrameLength(upReceived[i])
  BY LineIsNoMixture DEF FramesInv, UpProofs!NothingInvented
<1>3. UpProofs!FrameLength(upReceived[i]) \in Nat /\ UpProofs!FrameLength(upReceived[i]) >= 3
  BY <1>1, AreBounded, UpProofs!Lengthy
<1> QED
  BY <1>1, <1>2, <1>3 DEF FramesInv, UpProofs!WrittenBegun, UpProofs!Begun

LEMMA MixturesCount == ASSUME UpProofs!TypeOK PROVE Mixtures \in Nat
<1>1. IsFiniteSet(1..Len(upReceived))
  BY Arrived, FS_Interval
<1>2. {i \in 1..Len(upReceived) : upReceived[i] = Up!Mixture} \in SUBSET (1..Len(upReceived))
  OBVIOUS
<1>3. IsFiniteSet({i \in 1..Len(upReceived) : upReceived[i] = Up!Mixture})
  BY <1>1, <1>2, FS_Subset
<1> QED
  BY <1>3, FS_CardinalityType DEF Mixtures

\* In the sync mode the requests that were given are those among the first lines.
LEMMA GotIs ==
    ASSUME FramesInv, mode = "sync"
    PROVE  /\ Len(upReceived) <= MaxFrames
           /\ \A n : Given(n) <=> n \in 1..Len(upReceived)
           /\ Cardinality(Got) = NumberOf(Len(upReceived))
<1> DEFINE L == Len(upReceived)
<1>1. L \in Nat /\ MaxFrames \in Nat
  BY Arrived, Finite DEF FramesInv
<1>2. \A i \in 1..L : i \in 1..MaxFrames /\ upReceived[i] = <<"client", i>>
  <2> SUFFICES ASSUME NEW i \in 1..L PROVE i \in 1..MaxFrames /\ upReceived[i] = <<"client", i>>
    OBVIOUS
  <2>1. upReceived[i] = <<"client", i>>
    BY DEF FramesInv, InPlace
  <2>2. PICK n \in 1..MaxFrames : upReceived[i] = <<"client", n>>
    BY <2>1, Arrived, LineIsNoMixture DEF FramesInv
  <2>3. i = n
    BY <2>1, <2>2
  <2> QED
    BY <2>1, <2>3
<1>3. L <= MaxFrames
  <2>1. CASE L = 0
    BY <1>1, <2>1
  <2>2. CASE L # 0
    <3>1. L \in 1..L
      BY <1>1, <2>2
    <3> QED
      BY <1>1, <1>2, <3>1
  <2> QED
    BY <2>1, <2>2
<1>4. \A n : Given(n) <=> n \in 1..L
  BY <1>2 DEF Given
<1>5. Got = {n \in 1..L : Requested(n)}
  BY <1>2, <1>4 DEF Got
<1> QED
  BY <1>3, <1>4, <1>5 DEF NumberOf

-----------------------------------------------------------------------------
(* What a step changes of this.                                              *)

\* A reply that is begun was begun before.
NoNewReply ==
    \A f \in ReplyFrames : downProgress'[f] # "none" => downProgress[f] # "none"

\* A user begins a frame, and says what is in it.
Says ==
    \E f \in ClientFrames \cup OperatorFrames, word \in Words :
        /\ f \in ClientFrames => upProgress[f] = "none"
        /\ said' = [said EXCEPT ![f] = word]
        /\ UNCHANGED <<upReceived, unanswered, replies>>
        /\ NoNewReply

\* sessionWork is given a line, or something put together from lines.
Takes ==
    \E f \in ClientFrames \cup {Up!Mixture} :
        /\ upReceived' = Append(upReceived, f)
        /\ \E m \in readings(f) : Took(m)
        /\ UNCHANGED <<downProgress, said, replies>>

\* It begins a reply.
Replies ==
    /\ unanswered # <<>>
    /\ \E f \in ReplyFrames :
         /\ f[2] = Len(replies) + 1
         /\ \A g \in ReplyFrames : g # f => downProgress'[g] = downProgress[g]
    /\ replies' = Append(replies, createResponse(Head(unanswered)))
    /\ unanswered' = Tail(unanswered)
    /\ UNCHANGED <<said, upReceived>>

SaysNothing == NoNewReply /\ UNCHANGED <<said, upReceived, unanswered, replies>>

\* A frame is given to the reader, or a mixture, or nothing.
LEMMA UpReads ==
    ASSUME Up!ReadContinues
    PROVE  \/ upReceived' = upReceived
           \/ \E f \in ClientFrames \cup {Up!Mixture} : upReceived' = Append(upReceived, f)
<1>1. CASE Up!ReadPayload
  BY <1>1 DEF Up!ReadPayload, Up!FrameIds, ClientFrames
<1>2. CASE Up!ReadMixture
  BY <1>2 DEF Up!ReadMixture
<1>3. CASE \/ Up!Receive \/ Up!ReadHeader \/ Up!IncorrectMagic \/ Up!ReadError
           \/ \E ec \in {"syntax", "other"} : Up!ReadNoJson(ec)
  BY <1>3 DEF Up!Receive, Up!ReadHeader, Up!IncorrectMagic, Up!ReadNoJson, Up!ReadError, Up!FailRead
<1> QED
  BY <1>1, <1>2, <1>3 DEF Up!ReadContinues

\* The writers give nothing to the reader; a write that goes on has begun.
LEMMA WritersOnly ==
    /\ \A f : Up!BeginWrite(f) \/ Up!WriteContinues(f) => UNCHANGED upReceived
    /\ \A f : Down!WriteContinues(f) => downProgress[f] # "none"
    /\ \A f : Up!BeginWrite(f) => upProgress[f] = "none"
<1>1. \A f : Up!BeginWrite(f) \/ Up!WriteContinues(f) => UNCHANGED upReceived
  BY DEF Up!BeginWrite, Up!WriteContinues, Up!SendWord, Up!ReportWrite, Up!WriteFails, Up!reader
<1>2. \A f : Down!WriteContinues(f) => downProgress[f] # "none"
  BY DEF Down!WriteContinues, Down!SendWord, Down!ReportWrite, Down!WriteFails
<1>3. \A f : Up!BeginWrite(f) => upProgress[f] = "none"
  BY DEF Up!BeginWrite
<1> QED
  BY <1>1, <1>2, <1>3

LEMMA WordsAre ==
    ASSUME NEW f \in ClientFrames \cup OperatorFrames
    PROVE  WordsOf(f) \subseteq Words
BY WordsAssumption DEF WordsOf

LEMMA StepIs ==
    ASSUME FramesInv, FramesInv', [Next]_vars
    PROVE  Says \/ Takes \/ Replies \/ SaysNothing
<1>0. /\ DownProofs!TypeOK
      /\ ReplyFrames \subseteq DownProofs!FrameIds /\ OperatorFrames \subseteq DownProofs!FrameIds
      /\ \A f \in OperatorFrames : f \notin ReplyFrames
  BY FramesAre DEF FramesInv, OperatorFrames, ReplyFrames
<1>1. ASSUME NEW f \in ClientFrames, NEW word \in WordsOf(f), ClientWrites(f, word)
      PROVE  Says
  <2>1. word \in Words
    BY WordsAre
  <2>2. NoNewReply
    BY <1>1 DEF ClientWrites, downVars, NoNewReply
  <2> QED
    BY <1>1, <2>1, <2>2, WritersOnly DEF ClientWrites, Says
<1>2. ASSUME NEW f \in OperatorFrames, NEW word \in WordsOf(f), OperatorWrites(f, word)
      PROVE  Says
  <2>1. word \in Words
    BY WordsAre
  <2>2. NoNewReply
    <3>1. \A g \in DownProofs!FrameIds : g # f => downProgress'[g] = downProgress[g]
      BY <1>0, <1>2, OthersStay DEF OperatorWrites
    <3> QED
      BY <1>0, <3>1 DEF NoNewReply
  <2>3. f \notin ClientFrames
    BY DEF OperatorFrames, ClientFrames
  <2> QED
    BY <1>2, <2>1, <2>2, <2>3 DEF OperatorWrites, Says, upVars
<1>3. CASE ClientWriteContinues \/ ServerReads \/ Disconnect \/ UNCHANGED vars
  <2>1. UNCHANGED <<downVars, dataVars>>
    BY <1>3 DEF ClientWriteContinues, ServerReads, Disconnect, vars
  <2>2. UNCHANGED upReceived
    <3>1. CASE ClientWriteContinues
      BY <3>1, WritersOnly DEF ClientWriteContinues
    <3>2. CASE ServerReads \/ Disconnect \/ UNCHANGED vars
      BY <3>2 DEF ServerReads, Up!BeginRead, Disconnect, Up!Close, Up!reader, vars, upVars
    <3> QED
      BY <1>3, <3>1, <3>2
  <2> QED
    BY <2>1, <2>2 DEF downVars, dataVars, SaysNothing, NoNewReply
<1>4. CASE ServerReadContinues
  <2>1. UNCHANGED <<downProgress, said, replies>>
    BY <1>4 DEF ServerReadContinues, downVars
  <2>2. CASE upReceived' = upReceived
    <3>1. unanswered' = unanswered
      BY <1>4, <2>2 DEF ServerReadContinues
    <3> QED
      BY <2>1, <2>2, <3>1 DEF SaysNothing, NoNewReply
  <2>3. CASE upReceived' # upReceived
    <3>1. PICK f \in ClientFrames \cup {Up!Mixture} : upReceived' = Append(upReceived, f)
      BY <1>4, <2>3, UpReads DEF ServerReadContinues
    <3>2. upReceived'[Len(upReceived')] = f
      <4>1. upReceived \in Seq(ClientFrames \cup {Up!Mixture})
        BY Arrived DEF FramesInv
      <4> QED
        BY <3>1, <4>1
    <3>3. \E m \in readings(f) : Took(m)
      BY <1>4, <2>3, <3>2 DEF ServerReadContinues
    <3> QED
      BY <2>1, <3>1, <3>3 DEF Takes
  <2> QED
    BY <2>2, <2>3
<1>5. CASE Reply
  <2>1. PICK f \in ReplyFrames : f[2] = Len(replies) + 1 /\ Down!BeginWrite(f)
    BY <1>5 DEF Reply
  <2>2. \A g \in ReplyFrames : g # f => downProgress'[g] = downProgress[g]
    BY <1>0, <2>1, OthersStay
  <2> QED
    BY <1>5, <2>1, <2>2 DEF Reply, Replies, upVars
<1>6. ASSUME NEW f \in ReplyFrames \cup OperatorFrames, Down!WriteContinues(f),
             UNCHANGED <<upVars, dataVars>>
      PROVE  SaysNothing
  <2>1. \A g \in DownProofs!FrameIds : g # f => downProgress'[g] = downProgress[g]
    BY <1>0, <1>6, OthersStay
  <2>2. downProgress[f] # "none"
    BY <1>6, WritersOnly
  <2> QED
    BY <1>0, <1>6, <2>1, <2>2 DEF SaysNothing, NoNewReply, upVars, dataVars
<1>7. CASE ReplyContinues \/ OperatorWriteContinues
  BY <1>6, <1>7 DEF ReplyContinues, OperatorWriteContinues
<1>8. CASE ClientTask
  <2>1. downProgress' = downProgress
    BY <1>8 DEF ClientTask, ClientReads, ClientReadContinues, Down!BeginRead, Down!ReadContinues,
                Down!Receive, Down!ReadHeader, Down!IncorrectMagic, Down!ReadPayload,
                Down!ReadMixture, Down!ReadNoJson, Down!ReadError, Down!Complete, Down!writer
  <2>2. UNCHANGED <<upVars, dataVars>>
    BY <1>8 DEF ClientTask, ClientReads, ClientReadContinues
  <2> QED
    BY <2>1, <2>2 DEF SaysNothing, NoNewReply, upVars, dataVars
<1> QED
  BY <1>1, <1>2, <1>3, <1>4, <1>5, <1>7, <1>8 DEF Next, SessionWork, Ended

-----------------------------------------------------------------------------
(* The invariant is kept.                                                    *)

LEMMA Kept ==
    ASSUME FramesInv, TalkInv, SaidInv', NoNewReply,
           UNCHANGED <<mode, upReceived, unanswered, replies>>,
           \A n : Given(n) => said'[<<"client", n>>] = said[<<"client", n>>]
    PROVE  TalkInv'
<1>1. \A n : (Given(n)' <=> Given(n)) /\ (Given(n) => (Requested(n)' <=> Requested(n)))
  BY DEF Given, Requested
<1>2. RepliesNumbered'
  BY DEF TalkInv, RepliesNumbered, NoNewReply
<1>3. Got' = Got
  BY <1>1 DEF Got
<1>4. Counted'
  BY <1>3 DEF TalkInv, Counted, Mixtures
<1>5. InTurn'
  <2> SUFFICES ASSUME mode = "sync" PROVE InTurn'
    BY DEF InTurn
  <2>1. \A n \in 1..Len(upReceived) : Given(n)
    BY GotIs
  <2>2. Len(upReceived) \in Nat
    BY Arrived DEF FramesInv
  <2>3. \A n \in 1..Len(upReceived) : NumberOf(n)' = NumberOf(n)
    <3> SUFFICES ASSUME NEW n \in 1..Len(upReceived) PROVE NumberOf(n)' = NumberOf(n)
      OBVIOUS
    <3>1. \A i \in 1..n : Requested(i)' <=> Requested(i)
      BY <1>1, <2>1, <2>2
    <3>2. {i \in 1..n : Requested(i)'} = {i \in 1..n : Requested(i)}
      BY <3>1
    <3> QED
      BY <3>2 DEF NumberOf
  <2>4. Owed' = Owed /\ \A k : Kth(k)' = Kth(k)
    BY DEF Owed, Kth
  <2> SUFFICES ASSUME NEW k \in 1..Owed
               PROVE  \E n \in 1..Len(upReceived) :
                        Requested(n)' /\ NumberOf(n)' = k /\ said'[<<"client", n>>] = Kth(k)
    BY <2>4 DEF InTurn
  <2>5. PICK n \in 1..Len(upReceived) :
          Requested(n) /\ NumberOf(n) = k /\ said[<<"client", n>>] = Kth(k)
    BY DEF TalkInv, InTurn
  <2> QED
    BY <1>1, <2>1, <2>3, <2>5
<1> QED
  BY <1>2, <1>4, <1>5 DEF TalkInv

LEMMA SaysInv ==
    ASSUME FramesInv, TalkInv, mode' = mode, Says \/ SaysNothing
    PROVE  TalkInv'
<1>1. CASE SaysNothing
  <2>1. SaidInv'
    BY <1>1 DEF SaysNothing, TalkInv, SaidInv
  <2> QED
    BY <1>1, <2>1, Kept DEF SaysNothing
<1>2. CASE Says
  <2>1. PICK f \in ClientFrames \cup OperatorFrames, word \in Words :
          /\ f \in ClientFrames => upProgress[f] = "none"
          /\ said' = [said EXCEPT ![f] = word]
          /\ UNCHANGED <<upReceived, unanswered, replies>>
          /\ NoNewReply
    BY <1>2 DEF Says
  <2>2. SaidInv'
    BY <2>1 DEF TalkInv, SaidInv
  <2>3. \A n : Given(n) => f # <<"client", n>>
    <3>1. \A i \in 1..Len(upReceived) :
            upReceived[i] # Up!Mixture => upProgress[upReceived[i]] # "none"
      BY GivenBegun
    <3>2. \A n : f = <<"client", n>> => f \in ClientFrames
      BY DEF OperatorFrames
    <3> QED
      BY <2>1, <3>1, <3>2, LineIsNoMixture DEF Given
  <2>4. \A n : Given(n) => said'[<<"client", n>>] = said[<<"client", n>>]
    <3>1. \A g \in ClientFrames \cup OperatorFrames : g # f => said'[g] = said[g]
      BY <2>1 DEF TalkInv, SaidInv
    <3>2. \A n : Given(n) => <<"client", n>> \in ClientFrames
      BY Arrived, LineIsNoMixture DEF FramesInv, Given, ClientFrames
    <3> QED
      BY <2>3, <3>1, <3>2
  <2> QED
    BY <2>1, <2>2, <2>4, Kept
<1> QED
  BY <1>1, <1>2

\* A reply takes the oldest of the requests that wait: the k-th of both is the same.
LEMMA RepliesInv ==
    ASSUME FramesInv, TalkInv, mode' = mode, Replies
    PROVE  TalkInv'
<1> DEFINE r == Len(replies)
           u == Len(unanswered)
           a == createResponse(Head(unanswered))
<1>1. /\ unanswered \in Seq(Questions) /\ replies \in Seq(AnswersGiven) /\ unanswered # <<>>
      /\ replies' = Append(replies, a) /\ unanswered' = Tail(unanswered)
      /\ said' = said /\ upReceived' = upReceived
  BY DEF TalkInv, Counted, Replies
<1>2. PICK word \in RequestWords : Head(unanswered) = Question(word)
  <2>1. Head(unanswered) \in Questions
    BY <1>1
  <2> QED
    BY <2>1 DEF Questions
<1>3. a = Answer(word) /\ a \in AnswersGiven /\ a.class = Head(unanswered).class
  BY <1>2, Conversions DEF AnswersGiven
<1>4. /\ r \in Nat /\ u \in Nat \ {0}
      /\ Len(replies') = r + 1 /\ replies' \in Seq(AnswersGiven)
      /\ \A k \in 1..r : replies'[k] = replies[k]
      /\ replies'[r + 1] = a
      /\ Len(unanswered') = u - 1 /\ unanswered' \in Seq(Questions)
      /\ \A k \in 1..(u - 1) : unanswered'[k] = unanswered[k + 1]
      /\ Head(unanswered) = unanswered[1]
  <2>1. a \in AnswersGiven
    BY <1>3
  <2> HIDE DEF a
  <2> QED
    BY <1>1, <2>1
<1>5. Owed' = Owed /\ \A k \in 1..Owed : Kth(k)' = Kth(k)
  <2>1. Owed = r + u /\ Owed' = (r + 1) + (u - 1)
    BY <1>4 DEF Owed
  <2> SUFFICES ASSUME NEW k \in 1..(r + u) PROVE Kth(k)' = Kth(k)
    BY <1>4, <2>1
  <2>2. CASE k <= r
    BY <1>4, <2>2 DEF Kth
  <2>3. CASE k = r + 1
    <3>1. Kth(k) = unanswered[1].class
      BY <1>4, <2>3 DEF Kth
    <3>2. Kth(k)' = a.class
      BY <1>4, <2>3 DEF Kth
    <3> QED
      BY <1>3, <1>4, <3>1, <3>2
  <2>4. CASE k > r + 1
    <3>1. k - (r + 1) \in 1..(u - 1) /\ (k - (r + 1)) + 1 = k - r
      BY <1>4, <2>4
    <3>2. unanswered'[k - (r + 1)] = unanswered[k - r]
      BY <1>4, <3>1
    <3> QED
      BY <1>4, <2>4, <3>2 DEF Kth
  <2> QED
    BY <1>4, <2>2, <2>3, <2>4
<1>6. /\ \A n : Requested(n)' = Requested(n) /\ NumberOf(n)' = NumberOf(n)
      /\ Got' = Got
  BY <1>1 DEF Requested, NumberOf, Got, Given
<1>7. Counted'
  <2>1. Len(replies') <= MaxFrames
    BY <1>4, Finite DEF Replies, ReplyFrames
  <2>2. Mixtures' = Mixtures
    BY <1>1 DEF Mixtures
  <2> QED
    BY <1>4, <1>5, <1>6, <2>1, <2>2 DEF TalkInv, Counted, Owed
<1>8. InTurn'
  BY <1>1, <1>5, <1>6 DEF TalkInv, InTurn
<1>9. RepliesNumbered'
  <2>1. PICK f \in ReplyFrames : /\ f[2] = Len(replies) + 1
                                 /\ \A g \in ReplyFrames : g # f => downProgress'[g] = downProgress[g]
    BY DEF Replies
  <2>2. \A g \in ReplyFrames : g[2] \in Nat
    BY Finite DEF ReplyFrames
  <2> QED
    BY <1>4, <2>1, <2>2 DEF TalkInv, RepliesNumbered
<1>10. SaidInv'
  BY <1>1 DEF TalkInv, SaidInv
<1> QED
  BY <1>7, <1>8, <1>9, <1>10 DEF TalkInv

\* A line arrives once; if it is a request it is one more of those that wait.
LEMMA TakesCounts ==
    ASSUME FramesInv, FramesInv', TalkInv, NEW n \in 1..MaxFrames, NEW f, f = <<"client", n>>,
           said' = said, upReceived' = Append(upReceived, f)
    PROVE  /\ \A m : Given(m)' <=> Given(m) \/ m = n
           /\ Requested(n) => Cardinality(Got') = Cardinality(Got) + 1
           /\ ~Requested(n) => Got' = Got
           /\ Mixtures' = Mixtures
<1> DEFINE L == Len(upReceived)
<1>1. /\ L \in Nat /\ Len(upReceived') = L + 1 /\ upReceived'[L + 1] = f
      /\ \A i \in 1..L : upReceived'[i] = upReceived[i]
  <2>1. upReceived \in Seq(ClientFrames \cup {Up!Mixture}) /\ f \in ClientFrames \cup {Up!Mixture}
    BY Arrived DEF FramesInv, ClientFrames
  <2> QED
    BY <2>1
<1>2. \A m : Given(m)' <=> Given(m) \/ m = n
  <2>1. ASSUME NEW m PROVE Given(m)' => Given(m) \/ m = n
    BY <1>1 DEF Given
  <2>2. ASSUME NEW m PROVE Given(m) \/ m = n => Given(m)'
    BY <1>1 DEF Given
  <2> QED
    BY <2>1, <2>2
<1>3. ~Given(n)
  <2> SUFFICES ASSUME NEW i \in 1..L, upReceived[i] = f PROVE FALSE
    BY DEF Given
  <2>1. i \in 1..(L + 1) /\ L + 1 \in 1..(L + 1)
    BY <1>1
  <2>2. upReceived'[i] = upReceived'[L + 1]
    BY <1>1
  <2>3. i = L + 1
    BY <1>1, <2>1, <2>2, LineIsNoMixture DEF FramesInv, UpProofs!NothingInvented
  <2> QED
    BY <1>1, <2>3
<1>4. \A m : Requested(m)' = Requested(m)
  BY DEF Requested
<1>5. Mixtures' = Mixtures
  <2>1. {i \in 1..(L + 1) : upReceived'[i] = Up!Mixture} = {i \in 1..L : upReceived[i] = Up!Mixture}
    <3>1. upReceived'[L + 1] # Up!Mixture
      BY <1>1, LineIsNoMixture
    <3>2. \A i : i \in 1..(L + 1) <=> i \in 1..L \/ i = L + 1
      BY <1>1
    <3> QED
      BY <1>1, <3>1, <3>2
  <2> QED
    BY <1>1, <2>1 DEF Mixtures
<1>6. CASE Requested(n)
  <2>1. Got' = Got \cup {n} /\ n \notin Got
    BY <1>2, <1>3, <1>4, <1>6 DEF Got
  <2> QED
    BY <1>2, <1>5, <1>6, <2>1, Finite, FS_AddElement
<1>7. CASE ~Requested(n)
  BY <1>2, <1>4, <1>5, <1>7 DEF Got
<1> QED
  BY <1>6, <1>7

LEMMA TakesLine ==
    ASSUME FramesInv, FramesInv', TalkInv, mode' = mode,
           NEW f \in ClientFrames, upReceived' = Append(upReceived, f),
           \E m \in readings(f) : Took(m), UNCHANGED <<downProgress, said, replies>>
    PROVE  TalkInv'
<1>1. /\ upReceived' = Append(upReceived, f)
      /\ unanswered' = IF isAnswered(understood(f)) THEN Append(unanswered, understood(f))
                       ELSE unanswered
      /\ UNCHANGED <<downProgress, said, replies>>
  <2>1. f # Up!Mixture
    BY LineIsNoMixture DEF ClientFrames
  <2>2. readings(f) = {understood(f)}
    BY <2>1 DEF readings
  <2> QED
    BY <2>2 DEF Took
<1>2. PICK n \in 1..MaxFrames : f = <<"client", n>>
  BY DEF ClientFrames
<1> DEFINE r == Len(replies)
           u == Len(unanswered)
           L == Len(upReceived)
<1>3. /\ \A m : Given(m)' <=> Given(m) \/ m = n
      /\ Requested(n) => Cardinality(Got') = Cardinality(Got) + 1
      /\ ~Requested(n) => Got' = Got
      /\ Mixtures' = Mixtures
  BY <1>1, <1>2, TakesCounts
<1>4. /\ L \in Nat /\ Len(upReceived') = L + 1 /\ upReceived'[L + 1] = f
      /\ \A i \in 1..L : upReceived'[i] = upReceived[i]
  <2>1. upReceived \in Seq(ClientFrames \cup {Up!Mixture})
    BY Arrived DEF FramesInv
  <2> QED
    BY <1>1, <2>1
<1>5. r \in Nat /\ u \in Nat /\ unanswered \in Seq(Questions) /\ replies' = replies
  BY <1>1 DEF TalkInv, Counted
<1>6. /\ unanswered' \in Seq(Questions)
      /\ ~Requested(n) => unanswered' = unanswered
      /\ Requested(n) => /\ Len(unanswered') = u + 1
                         /\ \A k \in 1..u : unanswered'[k] = unanswered[k]
                         /\ unanswered'[u + 1].class = said[f]
  <2>1. CASE ~Requested(n)
    BY <1>1, <1>2, <1>5, <2>1, ClientUnderstood
  <2>2. CASE Requested(n)
    <3> DEFINE q == Question(said[f])
    <3>1. unanswered' = Append(unanswered, q)
      BY <1>1, <1>2, <2>2, ClientUnderstood
    <3>2. said[f] \in RequestWords
      BY <1>2, <2>2 DEF Requested, RequestWords
    <3>3. q \in Questions /\ q.class = said[f]
      BY <3>2, Conversions DEF Questions
    <3> HIDE DEF q
    <3>4. /\ Append(unanswered, q) \in Seq(Questions) /\ Len(Append(unanswered, q)) = u + 1
          /\ \A k \in 1..u : Append(unanswered, q)[k] = unanswered[k]
          /\ Append(unanswered, q)[u + 1] = q
      BY <1>5, <3>3
    <3> QED
      BY <2>2, <3>1, <3>3, <3>4
  <2> QED
    BY <2>1, <2>2
<1>7. Counted'
  <2>1. /\ r + u <= Cardinality(Got) + Mixtures /\ r <= MaxFrames
        /\ mode = "sync" => r + u = Cardinality(Got)
        /\ replies \in Seq(AnswersGiven)
    BY DEF TalkInv, Counted
  <2>2. Cardinality(Got) \in Nat /\ Mixtures \in Nat
    BY Finite, MixturesCount DEF FramesInv
  <2>3. CASE Requested(n)
    <3>1. Len(unanswered') = u + 1 /\ Cardinality(Got') = Cardinality(Got) + 1
      BY <1>3, <1>6, <2>3
    <3> QED
      BY <1>3, <1>5, <1>6, <2>1, <2>2, <3>1 DEF Counted
  <2>4. CASE ~Requested(n)
    <3>1. unanswered' = unanswered /\ Got' = Got
      BY <1>3, <1>6, <2>4
    <3> QED
      BY <1>3, <1>5, <1>6, <2>1, <2>2, <3>1 DEF Counted
  <2> QED
    BY <2>3, <2>4
<1>8. InTurn'
  <2> SUFFICES ASSUME mode = "sync", NEW k \in 1..Owed'
               PROVE  \E m \in 1..(L + 1) :
                        /\ Requested(m)' /\ NumberOf(m)' = k
                        /\ said'[<<"client", m>>] = Kth(k)'
    BY <1>4 DEF InTurn
  <2>1. \A m : (Requested(m)' <=> Requested(m)) /\ NumberOf(m)' = NumberOf(m)
    BY <1>1 DEF Requested, NumberOf
  <2>2. CASE k \in 1..Owed
    <3>1. PICK m \in 1..L : Requested(m) /\ NumberOf(m) = k /\ said[<<"client", m>>] = Kth(k)
      BY <2>2 DEF TalkInv, InTurn
    <3>2. Kth(k)' = Kth(k)
      <4>1. k <= r \/ k - r \in 1..u
        BY <1>5, <2>2 DEF Owed
      <4> QED
        BY <1>5, <1>6, <4>1 DEF Kth
    <3>3. m \in 1..(L + 1)
      BY <1>4
    <3> QED
      BY <1>1, <2>1, <3>1, <3>2, <3>3
  <2>3. CASE k \notin 1..Owed
    <3>1. Requested(n) /\ k = r + (u + 1)
      <4>1. Requested(n)
        <5>1. ASSUME ~Requested(n) PROVE Owed' = Owed
          BY <1>5, <1>6, <5>1 DEF Owed
        <5> QED
          BY <2>3, <5>1
      <4>2. Owed' = r + (u + 1) /\ Owed = r + u
        BY <1>5, <1>6, <4>1 DEF Owed
      <4> QED
        BY <1>5, <2>3, <4>1, <4>2
    <3>2. n = L + 1
      <4>1. L + 1 \in 1..Len(upReceived')
        BY <1>4
      <4>2. upReceived'[L + 1] = <<"client", L + 1>>
        BY <4>1 DEF FramesInv, InPlace
      <4> QED
        BY <1>2, <1>4, <4>2
    <3>3. NumberOf(n)' = k
      <4>1. Got' = {m \in 1..n : Requested(m)'}
        <5>1. \A m : Given(m)' <=> m \in 1..n
          BY <1>3, <1>4, <3>2, GotIs
        <5>2. \A m \in 1..n : m \in 1..MaxFrames
          BY Finite
        <5> QED
          BY <5>1, <5>2 DEF Got
      <4>2. Cardinality(Got') = k
        BY <1>7, <1>5, <1>6, <3>1 DEF Counted
      <4> QED
        BY <4>1, <4>2 DEF NumberOf
    <3>4. Kth(k)' = said[f]
      <4>1. ~(k <= r) /\ k - r = u + 1
        BY <1>5, <3>1
      <4> QED
        BY <1>5, <1>6, <3>1, <4>1 DEF Kth
    <3>5. n \in 1..(L + 1)
      BY <1>4, <3>2
    <3> QED
      BY <1>1, <1>2, <2>1, <3>1, <3>3, <3>4, <3>5
  <2> QED
    BY <2>2, <2>3
<1>9. RepliesNumbered' /\ SaidInv'
  BY <1>1 DEF TalkInv, RepliesNumbered, SaidInv
<1> QED
  BY <1>7, <1>8, <1>9 DEF TalkInv

\* What is put together from lines counts as one that may be answered.
LEMMA TakesMixture ==
    ASSUME FramesInv, FramesInv', TalkInv, mode' = mode, upReceived' = Append(upReceived, Up!Mixture),
           \E m \in readings(Up!Mixture) : Took(m), UNCHANGED <<downProgress, said, replies>>
    PROVE  TalkInv'
<1> DEFINE L == Len(upReceived)
           u == Len(unanswered)
           M == {i \in 1..L : upReceived[i] = Up!Mixture}
<1>1. /\ L \in Nat /\ Len(upReceived') = L + 1 /\ upReceived'[L + 1] = Up!Mixture
      /\ \A i \in 1..L : upReceived'[i] = upReceived[i]
  <2>1. upReceived \in Seq(ClientFrames \cup {Up!Mixture})
    BY Arrived DEF FramesInv
  <2> QED
    BY <2>1
<1>2. \A i : i \in 1..(L + 1) <=> i \in 1..L \/ i = L + 1
  BY <1>1
<1>3. mode # "sync"
  <2>1. L + 1 \in 1..(L + 1)
    BY <1>1
  <2> QED
    BY <1>1, <2>1, LineIsNoMixture DEF FramesInv, InPlace
<1>4. Mixtures' = Mixtures + 1
  <2>1. {i \in 1..(L + 1) : upReceived'[i] = Up!Mixture} = M \cup {L + 1}
    BY <1>1, <1>2
  <2>2. IsFiniteSet(M)
    <3>1. IsFiniteSet(1..L) /\ M \in SUBSET (1..L)
      BY <1>1, FS_Interval
    <3> QED
      BY <3>1, FS_Subset
  <2>3. L + 1 \notin M
    BY <1>1
  <2>4. Cardinality(M \cup {L + 1}) = Cardinality(M) + 1
    BY <2>2, <2>3, FS_AddElement
  <2> QED
    BY <1>1, <2>1, <2>4 DEF Mixtures
<1>5. Got' = Got
  <2>1. ASSUME NEW n PROVE Given(n)' <=> Given(n)
    BY <1>1, <1>2, LineIsNoMixture DEF Given
  <2>2. \A n : Requested(n)' <=> Requested(n)
    BY DEF Requested
  <2> QED
    BY <2>1, <2>2 DEF Got
<1>6. /\ u \in Nat /\ Len(replies) \in Nat
      /\ unanswered' \in Seq(Questions) /\ Len(unanswered') \in {u, u + 1}
  <2>1. unanswered \in Seq(Questions) /\ replies \in Seq(AnswersGiven)
    BY DEF TalkInv, Counted
  <2>2. PICK m \in readings(Up!Mixture) : Took(m)
    OBVIOUS
  <2>3. isAnswered(m) => m \in Questions
    BY MixtureUnderstood DEF TalkInv
  <2>4. CASE isAnswered(m)
    <3>1. unanswered' = Append(unanswered, m) /\ m \in Questions
      BY <2>2, <2>3, <2>4 DEF Took
    <3> QED
      BY <2>1, <3>1
  <2>5. CASE ~isAnswered(m)
    BY <2>1, <2>2, <2>5 DEF Took
  <2> QED
    BY <2>4, <2>5
<1>7. Counted'
  <2>1. /\ Len(replies) + u <= Cardinality(Got) + Mixtures
        /\ replies \in Seq(AnswersGiven) /\ Len(replies) <= MaxFrames
    BY DEF TalkInv, Counted
  <2>2. Cardinality(Got) \in Nat /\ Mixtures \in Nat
    BY Finite, MixturesCount DEF FramesInv
  <2>3. Len(replies) + Len(unanswered') <= Cardinality(Got) + (Mixtures + 1)
    BY <1>6, <2>1, <2>2
  <2> QED
    BY <1>3, <1>4, <1>5, <1>6, <2>1, <2>3 DEF Counted
<1>8. InTurn' /\ RepliesNumbered' /\ SaidInv'
  BY <1>3 DEF TalkInv, InTurn, RepliesNumbered, SaidInv
<1> QED
  BY <1>7, <1>8 DEF TalkInv

LEMMA TakesInv ==
    ASSUME FramesInv, FramesInv', TalkInv, mode' = mode, Takes
    PROVE  TalkInv'
BY TakesLine, TakesMixture DEF Takes

LEMMA TalkStep ==
    ASSUME OpenType, FramesInv, FramesInv', TalkInv, [Next]_vars
    PROVE  TalkInv'
<1>1. mode' = mode
  BY Step DEF AtMostCloses
<1> QED
  BY <1>1, StepIs, SaysInv, TakesInv, RepliesInv

LEMMA InitTalk == Init => TalkInv
<1> SUFFICES ASSUME Init PROVE TalkInv
  OBVIOUS
<1>1. SaidInv
  BY DEF Init, SaidInv
<1>2. RepliesNumbered
  BY FramesAre DEF Init, Down!Init, Down!FrameIds, DownProofs!FrameIds, RepliesNumbered
<1>3. Len(replies) = 0 /\ Len(unanswered) = 0 /\ Len(upReceived) = 0
  BY DEF Init, Up!Init
<1>4. Got = {}
  BY <1>3 DEF Got, Given
<1>5. Counted
  <2>1. Mixtures = 0
    <3>1. {i \in 1..Len(upReceived) : upReceived[i] = Up!Mixture} = {}
      BY <1>3
    <3> QED
      BY <3>1, FS_EmptySet DEF Mixtures
  <2>2. unanswered = <<>> /\ replies = <<>>
    BY DEF Init
  <2> QED
    BY <1>3, <1>4, <2>1, <2>2, Finite, FS_EmptySet DEF Counted
<1>6. InTurn
  BY <1>3 DEF InTurn, Owed
<1> QED
  BY <1>1, <1>2, <1>5, <1>6 DEF TalkInv

-----------------------------------------------------------------------------
(* The theorems.                                                             *)

\* What each direction contributes.
Directions ==
    /\ UpProofs!TypeOK /\ DownProofs!TypeOK
    /\ UpProofs!NothingInvented /\ DownProofs!NothingInvented
    /\ UpProofs!WrittenBegun /\ DownProofs!WrittenBegun
    /\ UpProofs!CountIs /\ DownProofs!CountIs
    /\ mode = "sync" => UpProofs!Whole(upPos)

\* Both directions count as this module does.
LEMMA CardinalityIs ==
    \A S : UpProofs!Cardinality(S) = Cardinality(S) /\ DownProofs!Cardinality(S) = Cardinality(S)
BY DEF UpProofs!Cardinality, DownProofs!Cardinality, Cardinality

\* One writer's frames are in the places of their numbers.
LEMMA DirectionsAre == Directions => FramesInv
<1> SUFFICES ASSUME Directions, mode = "sync", NEW i \in 1..Len(upReceived)
             PROVE  upReceived[i] = <<"client", i>>
  BY DEF Directions, FramesInv, InPlace
<1>1. \A j \in 1..Len(upReceived) : \E n \in 1..MaxFrames : upReceived[j] = <<"client", n>>
  <2>1. \A j \in 1..Len(upReceived) : upReceived[j] # Up!Mixture
    BY LineIsNoMixture DEF Directions, UpProofs!NothingInvented
  <2> QED
    BY <2>1, Arrived DEF Directions
<1>2. Len(upReceived) \in Nat /\ i \in Nat \ {0}
  BY Arrived DEF Directions
<1>3. PICK n \in 1..MaxFrames : upReceived[i] = <<"client", n>>
  BY <1>1
<1>4. \A j \in 1..i : upReceived[j][1] = upReceived[i][1]
  BY <1>1, <1>2
<1>5. {j \in 1..i : upReceived[j][1] = upReceived[i][1]} = 1..i
  BY <1>4
<1>6. Cardinality(1..i) = n
  <2>1. UpProofs!Cardinality({j \in 1..i : upReceived[j][1] = upReceived[i][1]}) = n
    BY <1>3 DEF Directions, UpProofs!CountIs
  <2> QED
    BY <1>5, <2>1, CardinalityIs
<1>7. Cardinality(1..i) = i
  BY <1>2, FS_Interval
<1> QED
  BY <1>3, <1>6, <1>7

LEMMA DirectionsHold == Spec => []Directions
<1>1. UpProofs!Bounded /\ DownProofs!Bounded
  BY AreBounded
<1>2. UpProofs!Alone
  BY DEF UpProofs!Alone, UpProofs!FrameIds
<1>3. /\ UpProofs!LineInv => UpProofs!WrittenBegun
      /\ DownProofs!LineInv => DownProofs!WrittenBegun
  BY DEF UpProofs!LineInv, DownProofs!LineInv
<1>4. UpProofs!TypeOK /\ UpProofs!Whole(Len(upWire)) => UpProofs!Whole(upPos)
  <2> SUFFICES ASSUME UpProofs!TypeOK, UpProofs!Whole(Len(upWire)), NEW i \in 1..upPos
               PROVE  i \in 1..Len(upWire)
    BY DEF UpProofs!Whole
  <2> QED
    BY DEF UpProofs!TypeOK
<1> QED
  BY <1>1, <1>2, <1>3, <1>4, EachDirection, UpProofs!TypeCorrect, DownProofs!TypeCorrect,
     UpProofs!NoneInvented, DownProofs!NoneInvented, UpProofs!Numbered, DownProofs!Numbered,
     UpProofs!LineInvHolds, DownProofs!LineInvHolds, UpProofs!TornByTwo, PTL DEF Directions

\* Every request that sessionWork is given is answered once and in its turn,
\* whatever the two users type and however the connection ends.
THEOREM Conversation == Spec => [](Directions /\ TalkInv)
<1>1. Init => OpenType /\ TalkInv
  BY InitSeen, InitTalk
<1>2. OpenType /\ Directions /\ Directions' /\ TalkInv /\ [Next]_vars => OpenType' /\ TalkInv'
  <2>1. Directions' => FramesInv'
    BY DirectionsAre, PTL
  <2> QED
    BY <2>1, DirectionsAre, Step, TalkStep
<1> QED
  BY <1>1, <1>2, DirectionsHold, PTL DEF Spec

\* The types of all variables.
THEOREM TypeCorrect == Spec => []TypeOK
<1>1. Directions /\ TalkInv => TypeOK
  <2> SUFFICES ASSUME Directions, TalkInv PROVE TypeOK
    OBVIOUS
  <2>1. Up!TypeOK
    BY DEF Directions, UpProofs!TypeOK, Up!TypeOK, UpProofs!Modes, Up!Modes, UpProofs!FrameIds,
           Up!FrameIds, UpProofs!WireWords, Up!WireWords, UpProofs!Reads, Up!Reads,
           UpProofs!FrameLength, Up!FrameLength, UpProofs!Mixture, Up!Mixture
  <2>2. Down!TypeOK
    BY DEF Directions, DownProofs!TypeOK, Down!TypeOK, DownProofs!Modes, Down!Modes,
           DownProofs!FrameIds, Down!FrameIds, DownProofs!WireWords, Down!WireWords,
           DownProofs!Reads, Down!Reads, DownProofs!FrameLength, Down!FrameLength,
           DownProofs!Mixture, Down!Mixture
  <2> QED
    BY <2>1, <2>2 DEF TalkInv, SaidInv, Counted, Questions, AnswersGiven, TypeOK
<1> QED
  BY <1>1, Conversation, PTL

\* Every reply is caused by a request, or in the async mode by what the reads have
\* mixed, and a text arrives as it was typed.
THEOREM TextsArrive == Spec => []TextArrives
<1>1. Directions /\ TalkInv => TextArrives
  <2> SUFFICES ASSUME Directions, TalkInv PROVE TextArrives
    OBVIOUS
  <2>1. Len(replies) <= NumberOf(MaxFrames) + Mixtures
    <3>1. /\ Len(unanswered) \in Nat /\ Len(replies) \in Nat
          /\ Len(replies) + Len(unanswered) <= Cardinality(Got) + Mixtures
      BY DEF TalkInv, Counted
    <3>2. Mixtures \in Nat
      BY MixturesCount DEF Directions
    <3> QED
      BY <3>1, <3>2, Finite
  <2>2. ASSUME NEW i \in 1..Len(upReceived), upReceived[i] # Up!Mixture, said[upReceived[i]] = "text"
        PROVE  understood(upReceived[i]) = say("text")
    <3>1. upReceived[i][1] = "client"
      BY <2>2, Arrived DEF Directions
    <3> QED
      BY <2>2, <3>1, RawConversion DEF understood
  <2> QED
    BY <2>1, <2>2 DEF TextArrives
<1> QED
  BY <1>1, Conversation, PTL

\* In the sync mode the k-th reply that the client reads is a whole response to
\* the k-th request that its user made, as long as what it read is not torn.
THEOREM AnswersInOrder == Spec => []AnswersMatch
<1>1. Directions /\ TalkInv => AnswersMatch
  <2> SUFFICES ASSUME Directions, TalkInv, mode = "sync", Down!Whole(downPos),
                      NEW i \in 1..Len(downReceived), downReceived[i][1] = "reply"
               PROVE  \E n \in 1..MaxFrames :
                        /\ Requested(n) /\ NumberOf(n) = Answers(i)
                        /\ understood(downReceived[i]) = Answer(said[<<"client", n>>])
    BY DEF AnswersMatch
  <2> DEFINE f == downReceived[i]
             k == f[2]
  <2>1. /\ f \in DownProofs!FrameIds /\ f \in ReplyFrames /\ f = <<"reply", k>> /\ k \in Nat \ {0}
        /\ f # DownProofs!Mixture
    <3>1. f # DownProofs!Mixture
      BY LineIsNoMixture
    <3>2. f \in DownProofs!FrameIds
      BY <3>1 DEF Directions, DownProofs!TypeOK
    <3> QED
      BY <3>1, <3>2, FramesAre, Finite DEF ReplyFrames
  <2>2. k = Answers(i)
    <3>1. DownProofs!Cardinality({j \in 1..i : downReceived[j][1] = "reply"}) = k
      BY WholeAre DEF Directions, DownProofs!CountIs
    <3> QED
      BY <3>1, CardinalityIs DEF Answers
  <2>3. k <= Len(replies)
    <3>1. downWritten[f] = DownProofs!FrameLength(f)
      BY <2>1 DEF Directions, DownProofs!NothingInvented
    <3>2. DownProofs!FrameLength(f) \in Nat /\ DownProofs!FrameLength(f) >= 3
      BY <2>1, AreBounded, DownProofs!Lengthy
    <3>3. downProgress[f] # "none"
      BY <2>1, <3>1, <3>2 DEF Directions, DownProofs!WrittenBegun, DownProofs!Begun
    <3> QED
      BY <2>1, <3>3 DEF TalkInv, RepliesNumbered
  <2>4. Len(replies) \in Nat /\ Len(unanswered) \in Nat /\ replies[k] \in AnswersGiven
    BY <2>1, <2>3 DEF TalkInv, Counted
  <2>5. k \in 1..Owed
    BY <2>1, <2>3, <2>4 DEF Owed
  <2>6. PICK n \in 1..Len(upReceived) :
          Requested(n) /\ NumberOf(n) = k /\ said[<<"client", n>>] = Kth(k)
    BY <2>5 DEF TalkInv, InTurn
  <2>7. n \in 1..MaxFrames
    BY GotIs, Arrived, Finite, DirectionsAre DEF FramesInv
  <2>8. PICK word \in RequestWords : replies[k] = Answer(word)
    BY <2>4 DEF AnswersGiven
  <2>9. word = said[<<"client", n>>]
    BY <2>3, <2>6, <2>8, Conversions DEF Kth
  <2>10. understood(f) = Answer(word)
    <3>1. understood(f) = understoodAs(Answer(word))
      BY <2>1, <2>8 DEF understood
    <3> QED
      BY <3>1, Conversions
  <2> QED
    BY <2>2, <2>6, <2>7, <2>9, <2>10
<1> QED
  BY <1>1, Conversation, PTL
=============================================================================
