------------------------------ MODULE Messages ------------------------------
(***************************************************************************)
(* core/message, core/message_handler and core/request_response_handler:   *)
(* what a message becomes when it is written as JSON and read again, and   *)
(* what the server answers to it. A JSON document is known by its "type",  *)
(* its "transaction" and the set of its other fields; what the fields hold *)
(* is one of "data", as the sender gave it, and "none".                    *)
(***************************************************************************)
EXTENDS Integers

Types == {"signal", "information", "raw", "unknown"}
Transactions == {"Request", "Response", "Tests", "Error"}

\* class is the C++ class, type the string; body is "data" when the object holds
\* what its maker gave it.
Message(class, type, transaction, body) ==
    [class |-> class, type |-> type, transaction |-> transaction, body |-> body]

\* std::unique_ptr<Message> without a message.
NullMessage == Message("null", "unknown", "Error", "none")

-----------------------------------------------------------------------------
(* serialize, of each class.                                                 *)

\* Only InformationMessage knows Tests.
transactionNumber(m) ==
    CASE m.transaction = "Request" -> 0
      [] m.transaction = "Response" -> 1
      [] m.transaction = "Tests" /\ m.class = "information" -> 2
      [] OTHER -> -1

\* Mutation: the signal is written into the request.
fieldNamesSwapped(m) ==
    CASE m.class = "signal" ->
           {"central_Freq"} \cup IF m.transaction = "Request" THEN {"signal"} ELSE {}
      [] m.class = "information" ->
           IF m.transaction \in {"Response", "Tests"} THEN {"numberCore"} ELSE {}
      [] m.class = "raw" -> {"data"}
      [] OTHER -> {}

fieldNames(m) ==
    CASE m.class = "signal" ->
           {"central_Freq"} \cup IF m.transaction = "Response" THEN {"signal"} ELSE {}
      [] m.class = "information" ->
           IF m.transaction \in {"Response", "Tests"} THEN {"numberCore"} ELSE {}
      [] m.class = "raw" -> {"data"}
      [] OTHER -> {}

serialize(m) ==
    [type |-> m.type, transaction |-> transactionNumber(m), fields |-> fieldNames(m),
     body |-> m.body]

-----------------------------------------------------------------------------
(* The way back: read_sync, MessageHandler::parse and the constructors.      *)

setTypeTransaction(n) ==
    CASE n = 0 -> "Request" [] n = 1 -> "Response" [] n = 2 -> "Tests" [] OTHER -> "Error"

\* Mutation: a Request must hold the data too.
needsAlways(type, transaction) ==
    CASE type = "signal" -> {"central_Freq", "signal"}
      [] type = "information" -> {"numberCore"}
      [] OTHER -> {}

\* The fields without which the constructor throws. RawMessage catches its own
\* exception and stays empty.
needs(type, transaction) ==
    CASE type = "signal" /\ transaction = "Response" -> {"central_Freq", "signal"}
      [] type = "information" /\ transaction = "Response" -> {"numberCore"}
      [] OTHER -> {}

\* The data of a message are read from a Response only.
bodyOf(doc) ==
    IF setTypeTransaction(doc.transaction) = "Response"
          /\ (doc.type = "raw" => "data" \in doc.fields)
    THEN doc.body ELSE "none"

\* The factory knows three types; for another, or after an exception, there is
\* no message.
createMessage(doc) ==
    LET transaction == setTypeTransaction(doc.transaction) IN
    IF doc.type \in {"signal", "information", "raw"} /\ needs(doc.type, transaction) \subseteq doc.fields
    THEN Message(doc.type, doc.type, transaction, bodyOf(doc))
    ELSE NullMessage

\* How a message is understood that was written and read again.
understoodAs(m) == createMessage(serialize(m))

-----------------------------------------------------------------------------
(* What the programs say, and what the server answers.                       *)

\* SegmentClient::write and SegmentServer::write: two words are requests, any
\* other line is raw data and is sent as a response.
Words == {"signal", "information", "text"}
RequestWords == {"signal", "information"}
say(word) ==
    IF word \in RequestWords
    THEN Message("base", word, "Request", "none")
    ELSE Message("raw", "raw", "Response", "data")

\* What is understood of a request, and of a whole response.
Question(word) == Message(word, word, "Request", "none")
Answer(word) == Message(word, word, "Response", "data")

\* RequestResponseHandler::createResponse. It makes up the data.
createResponse(m) ==
    IF m.class # "null" /\ m.transaction # "Response" /\ m.type \in {"signal", "information"}
    THEN Message(m.type, m.type, "Response", "data")
    ELSE Message("base", "unknown", "Error", "none")

\* Mutation: raw messages are answered too.
isAnsweredAlways(m) == m.class # "null"

\* sessionWork: a null message is dropped and a raw one is logged.
isAnswered(m) == m.class # "null" /\ m.type # "raw"
=============================================================================
