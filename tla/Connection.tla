----------------------------- MODULE Connection -----------------------------
(***************************************************************************)
(* One client and one session of the server, connected: two directions of  *)
(* Frames over the same two sockets, and Messages on top of them.          *)
(*                                                                         *)
(*   up      client to server, written by the client's main thread         *)
(*   down    server to client, written by sessionWork, which answers what  *)
(*           it reads, and by the server's operator, from the main thread  *)
(*                                                                         *)
(* Both programs have the same IOMode. In the sync mode sessionWork reads  *)
(* the next frame only when its reply was written (segment_server.cpp:     *)
(* 141-159); in the async mode it waits for nothing.                       *)
(***************************************************************************)
EXTENDS Sequences, FiniteSets, Messages

CONSTANTS
    MaxFrames,      \* bound: lines that the client's user types
    MaxLines,       \* bound: lines that the server's operator types
    Size,           \* how many words the payload of each frame has
    Lengths,        \* bound: what another word can be when it is read as a length
    MaxReads,       \* bound: reads under way in the async mode
    Capacity,       \* bound: words that the sockets hold, in each direction
    Closers,        \* bound: which of the two users may disconnect
    SyncWords,      \* bound: what each line of a user may say in the sync mode
    AsyncWords      \* bound: and in the async mode

Users == {"client", "operator"}
ClientFrames == {"client"} \X (1..MaxFrames)
OperatorFrames == {"operator"} \X (1..MaxLines)
ReplyFrames == {"reply"} \X (1..MaxFrames)

ASSUME WordsAssumption ==
    {SyncWords, AsyncWords} \subseteq [ClientFrames \cup OperatorFrames -> SUBSET Words]
ASSUME ClosersAssumption == Closers \subseteq Users
ASSUME LimitsAssumption == {MaxFrames, MaxReads, Capacity} \subseteq Nat
ASSUME LinesAssumption == MaxLines \in 0..MaxFrames
ASSUME SizeAssumption ==
    /\ Size \in [(Users \cup {"reply"}) \X (1..MaxFrames) -> Nat \ {0}]
    /\ Lengths \subseteq Nat

VARIABLES
    mode,           \* IOMode of both programs
    clientOpen,     \* the client's socket
    serverOpen,     \* the server's socket
    upProgress, upWritten, upWire, upLasts, upPos, upReads, upReceived,
    downProgress, downWritten, downWire, downLasts, downPos, downReads, downReceived,
    said,           \* history: the word behind each frame of a user
    unanswered,     \* the messages that sessionWork is about to answer
    replies         \* history: its answers

upVars   == <<upProgress, upWritten, upWire, upLasts, upPos, upReads, upReceived>>
downVars == <<downProgress, downWritten, downWire, downLasts, downPos, downReads, downReceived>>
dataVars == <<said, unanswered, replies>>
vars     == <<mode, clientOpen, serverOpen, upVars, downVars, dataVars>>

Up == INSTANCE Frames WITH
    Writers <- {"client"},
    progress <- upProgress, written <- upWritten,
    wire <- upWire, lasts <- upLasts, pos <- upPos,
    reads <- upReads, received <- upReceived,
    writerOpen <- clientOpen, readerOpen <- serverOpen

Down == INSTANCE Frames WITH
    Writers <- {"reply", "operator"},
    progress <- downProgress, written <- downWritten,
    wire <- downWire, lasts <- downLasts, pos <- downPos,
    reads <- downReads, received <- downReceived,
    writerOpen <- serverOpen, readerOpen <- clientOpen

Init ==
    /\ mode \in {"sync", "async"}
    /\ clientOpen = TRUE /\ serverOpen = TRUE
    /\ Up!Init /\ Down!Init
    /\ said = [f \in ClientFrames \cup OperatorFrames |-> "nothing"]
    /\ unanswered = <<>>
    /\ replies = <<>>

\* What the other end makes of the JSON document in a frame.
understood(f) == understoodAs(IF f[1] = "reply" THEN replies[f[2]] ELSE say(said[f]))

\* What the server may make of what it is given. A document that is put together
\* from lines of the client is taken for one of them, or for no message.
readings(f) ==
    IF f = Up!Mixture
    THEN {NullMessage} \cup {understood(g) : g \in {h \in ClientFrames : said[h] # "nothing"}}
    ELSE {understood(f)}

-----------------------------------------------------------------------------
(* The two users.                                                            *)

WordsOf(f) == IF mode = "sync" THEN SyncWords[f] ELSE AsyncWords[f]

ClientWrites(f, word) ==
    /\ Up!BeginWrite(f)
    /\ said' = [said EXCEPT ![f] = word]
    /\ UNCHANGED <<downVars, unanswered, replies>>

OperatorWrites(f, word) ==
    /\ Down!BeginWrite(f)
    /\ said' = [said EXCEPT ![f] = word]
    /\ UNCHANGED <<upVars, unanswered, replies>>

\* The socket of a user is closed; one who may not disconnect keeps it.
Disconnect ==
    /\ Up!Close
    /\ "client" \in Closers \/ clientOpen' = clientOpen
    /\ "operator" \in Closers \/ serverOpen' = serverOpen
    /\ UNCHANGED <<downVars, dataVars>>

-----------------------------------------------------------------------------
(* sessionWork.                                                              *)

\* In the sync mode the reply is written inside the callback of the read.
Replied ==
    mode = "sync" =>
        /\ unanswered = <<>>
        /\ \A f \in ReplyFrames : downProgress[f] \in {"none", "reported", "failed"}

ServerReads == Replied /\ Up!BeginRead /\ UNCHANGED <<downVars, dataVars>>

\* A message was read; if it is to be answered it waits for that.
Took(m) == unanswered' = IF isAnswered(m) THEN Append(unanswered, m) ELSE unanswered

ServerReadContinues ==
    /\ Up!ReadContinues
    /\ \/ upReceived' = upReceived /\ UNCHANGED unanswered
       \/ /\ upReceived' # upReceived
          /\ \E m \in readings(upReceived'[Len(upReceived')]) : Took(m)
    /\ UNCHANGED <<downVars, said, replies>>

Reply ==
    /\ unanswered # <<>>
    /\ \E f \in ReplyFrames : f[2] = Len(replies) + 1 /\ Down!BeginWrite(f)
    /\ replies' = Append(replies, createResponse(Head(unanswered)))
    /\ unanswered' = Tail(unanswered)
    /\ UNCHANGED <<upVars, said>>

ReplyContinues ==
    /\ \E f \in ReplyFrames : Down!WriteContinues(f)
    /\ UNCHANGED <<upVars, dataVars>>

-----------------------------------------------------------------------------
(* The read task of the client, and the writes of the users.                 *)

ClientReads == Down!BeginRead /\ UNCHANGED <<upVars, dataVars>>
ClientReadContinues == Down!ReadContinues /\ UNCHANGED <<upVars, dataVars>>

ClientWriteContinues ==
    /\ \E f \in ClientFrames : Up!WriteContinues(f)
    /\ UNCHANGED <<downVars, dataVars>>

OperatorWriteContinues ==
    /\ \E f \in OperatorFrames : Down!WriteContinues(f)
    /\ UNCHANGED <<upVars, dataVars>>

-----------------------------------------------------------------------------
\* Both sockets are closed and every call has returned.
Ended ==
    /\ ~clientOpen /\ ~serverOpen
    /\ UNCHANGED vars

SessionWork == ServerReads \/ ServerReadContinues \/ Reply \/ ReplyContinues
ClientTask == ClientReads \/ ClientReadContinues

Next ==
    \/ \E f \in ClientFrames : \E word \in WordsOf(f) : ClientWrites(f, word)
    \/ \E f \in OperatorFrames : \E word \in WordsOf(f) : OperatorWrites(f, word)
    \/ ClientWriteContinues \/ OperatorWriteContinues
    \/ SessionWork \/ ClientTask
    \/ Disconnect
    \/ Ended

\* The threads of both programs run and bytes that were sent arrive. Nobody is
\* obliged to type a line or to disconnect.
Fairness ==
    /\ WF_vars(SessionWork)
    /\ WF_vars(ClientTask)
    /\ WF_vars(ClientWriteContinues)
    /\ WF_vars(OperatorWriteContinues)

Spec == Init /\ [][Next]_vars
FairSpec == Spec /\ Fairness

-----------------------------------------------------------------------------
(* Properties.                                                               *)

\* The variables have their types.
TypeOK ==
    /\ Up!TypeOK /\ Down!TypeOK
    /\ said \in [ClientFrames \cup OperatorFrames -> Words \cup {"nothing"}]
    /\ unanswered \in Seq({Question(word) : word \in RequestWords})
    /\ replies \in Seq({Answer(word) : word \in RequestWords})
    /\ Len(replies) <= MaxFrames

\* Whatever is torn, mixed or cut off, in either mode: no program is given a
\* frame that was not written to its end, or one twice (transport_handler.cpp:
\* 79, 93).
NothingInvented == Up!NothingInvented /\ Down!NothingInvented

\* In the sync mode each writer's frames arrive in order with none skipped, also
\* when the reply and the operator's line share the socket without a lock, up to
\* the first frame that they tear.
InOrder == Up!InOrder /\ Down!InOrder

\* What the client's user writes reaches the server through a channel
\* (README.md:96), in the sync mode.
UpIsChannel == Up!ImplementsChannel

\* The n-th line of the client's user is a request; how many of its first n are.
Requested(n) == said[<<"client", n>>] \in RequestWords
NumberOf(n) == Cardinality({i \in 1..n : Requested(i)})

\* The replies among the first i frames that the client was given.
Answers(i) == Cardinality({j \in 1..i : downReceived[j][1] = "reply"})

\* End to end, in the sync mode: the k-th reply that the client reads is a
\* complete response to the k-th request its user made, through two
\* serializations, two framings and sessionWork (README.md:127, 393), as long as
\* the server's threads have torn nothing of what was read.
AnswersMatch ==
    mode = "sync" /\ Down!Whole(downPos) =>
        \A i \in 1..Len(downReceived) : downReceived[i][1] = "reply" =>
            \E n \in 1..MaxFrames :
                /\ Requested(n) /\ NumberOf(n) = Answers(i)
                /\ understood(downReceived[i]) = Answer(said[<<"client", n>>])

\* The documents put together from several lines that sessionWork was given.
Mixtures == Cardinality({i \in 1..Len(upReceived) : upReceived[i] = Up!Mixture})

\* The programs never answer an answer: whatever the two users write, every
\* reply of sessionWork is caused by a request of the client's user, or by what
\* reads in the async mode have mixed, and a text arrives as the bytes that were
\* typed (segment_server.cpp:144-155).
TextArrives ==
    /\ Len(replies) <= NumberOf(MaxFrames) + Mixtures
    /\ \A i \in 1..Len(upReceived) :
         upReceived[i] # Up!Mixture /\ said[upReceived[i]] = "text" =>
             understood(upReceived[i]) = say("text")

\* Somewhere on the way to the client the words of two frames are mixed.
Torn == ~Down!Whole(Len(downWire))

\* A stream is torn, and its reader somewhere inside a frame, only if two threads
\* of the server wrote to it: never from the client to the server, and not by
\* replies alone.
TornNeedsTwoWriters ==
    mode = "sync" =>
        /\ Up!Whole(Len(upWire)) /\ ~Up!Astray
        /\ Torn \/ Down!Astray =>
             /\ \E f \in OperatorFrames : downProgress[f] # "none"
             /\ \E f \in ReplyFrames : downProgress[f] # "none"

\* Request n has been answered, or the connection has ended.
AnsweredOrEnded(n) ==
    \/ Answers(Len(downReceived)) >= NumberOf(n)
    \/ ~clientOpen \/ ~serverOpen

\* Unless the server's threads tear the stream, every request is answered, or
\* the connection has ended, although writes block while the sockets are full:
\* the client and sessionWork never both wait for the other to read.
RequestsAnswered ==
    \A n \in 1..MaxFrames :
        (mode = "sync" /\ Requested(n)) ~> (AnsweredOrEnded(n) \/ Torn)

\* What README.md:393 says without an exception: a request is answered, as long
\* as there is a connection.
EveryRequestAnswered ==
    \A n \in 1..MaxFrames : (mode = "sync" /\ Requested(n)) ~> AnsweredOrEnded(n)
=============================================================================
