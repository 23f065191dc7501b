---------------------------- MODULE MCConnection ----------------------------
EXTENDS Connection

\* In the sync mode both kinds of requests and a text can be answered or not.
MCSyncWords ==
    [f \in ClientFrames \cup OperatorFrames |->
        IF f = <<"client", 1>> THEN {"signal", "text"} ELSE {"information"}]

\* In the async mode two lines of the client overlap.
MCAsyncWords ==
    [f \in ClientFrames \cup OperatorFrames |-> IF f \in ClientFrames THEN {"text"} ELSE {}]

\* The payload of the operator's frame is as long as a whole reply: a reader that
\* takes a reply for that payload finds the next header in its place.
MCSize == [f \in (Users \cup {"reply"}) \X (1..MaxFrames) |-> IF f[1] = "operator" THEN 3 ELSE 1]

\* A length that is none is more than there will ever be.
MCLengths == {99}
=============================================================================
