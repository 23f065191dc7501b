------------------------------ MODULE Channel ------------------------------
(***************************************************************************)
(* What the users of a TransportHandler rely on (README.md:96): the frames *)
(* that were sent come out at the other end once each, in the order in     *)
(* which they were sent. A connection that ends loses a suffix of them.    *)
(***************************************************************************)
EXTENDS Naturals, Sequences

CONSTANT Message        \* what can be sent

VARIABLES
    sent,               \* everything that was sent
    received            \* what came out so far

vars == <<sent, received>>

Init == sent = <<>> /\ received = <<>>

Send(m) == sent' = Append(sent, m) /\ UNCHANGED received

Receive ==
    /\ Len(received) < Len(sent)
    /\ received' = Append(received, sent[Len(received) + 1])
    /\ UNCHANGED sent

Next == (\E m \in Message : Send(m)) \/ Receive

Spec == Init /\ [][Next]_vars
=============================================================================
