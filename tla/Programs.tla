------------------------------ MODULE Programs ------------------------------
(***************************************************************************)
(* server/main.cpp and client/main.cpp over core/configuration_handler:    *)
(* the programs of one host, each with threads of its own for the network  *)
(* (SegmentServer.tla, SegmentClient.tla), seen from main. They share the  *)
(* TCP ports, and those of a kind share a configuration file, which their  *)
(* user edits meanwhile.                                                   *)
(*                                                                         *)
(* A file is known by its kind and, when it is a JSON object, by the kind  *)
(* of program whose fields it has and by its entries: the ports of a       *)
(* server, the one address of a client.                                    *)
(***************************************************************************)
EXTENDS Integers, Sequences

CONSTANTS
    Servers,        \* the server programs
    Clients,        \* the client programs
    Edits,          \* bound: what the user writes into the file of each kind
    Beginnings,     \* bound: the files at the beginning
    MaxEvents,      \* bound: how often a file is edited or a program signalled or killed
    MaxLaunches     \* bound: how often programs are launched

Programs == Servers \cup Clients
Kinds == {"server", "client"}
kind(p) == IF p \in Servers THEN "server" ELSE "client"

\* What a file may hold; a configuration of a client has one entry.
Entries == [port : Nat, magic : Nat, detail : {"good", "bad", "name"}]
Contents ==
    {c \in [kind : {"object", "absent", "no_json", "no_object"},
            fields : {"server", "client", "neither", "none"},
            entries : Seq(Entries)] :
        c.fields = "client" => c.entries # <<>>}

ASSUME ProgramsAssumption == Servers \cap Clients = {} /\ "nobody" \notin Programs
ASSUME FilesAssumption ==
    /\ Edits \in [Kinds -> SUBSET Contents]
    /\ Beginnings \subseteq [Kinds -> Contents]
ASSUME BoundsAssumption == MaxEvents \in Nat /\ MaxLaunches \in Nat

VARIABLES
    file,           \* the configuration file of each kind
    pc,             \* where main of each program is, "off" when it does not run
    saw,            \* history: what getData has read
    config,         \* root of getData
    todo,           \* the servers that allStart or allStop has still to call
    running,        \* the flag that the signal handler clears
    entered,        \* history: main has read a line
    eof,            \* stdin of the programs is at its end; never changes
    listening,      \* the servers that work, with the TCP port of their acceptor
    events,         \* how often a file was edited, a program signalled or killed
    launches,       \* how often a program was launched
    link            \* the connection of each client, with what came of it

counts == <<events, launches>>
vars == <<file, pc, saw, config, todo, running, entered, eof, listening, link, counts>>

-----------------------------------------------------------------------------
(* ConfigurationHandler.                                                     *)

Object(fields, entries) == [kind |-> "object", fields |-> fields, entries |-> entries]
Other(k) == [kind |-> k, fields |-> "none", entries |-> <<>>]

\* A file that was opened for writing and not written yet is no JSON.
Absent    == Other("absent")
NoJson    == Other("no_json")
NoObject  == Other("no_object")
IsObject(c) == c.kind = "object"

\* detail is "bad" when a value of the entry cannot be converted or is missing,
\* and "name" when the address of a client is no IP address.
Entry(port, magic, detail) == [port |-> port, magic |-> magic, detail |-> detail]

\* Mutation: the two cases of the switch are swapped.
createDefaultSwapped(k) ==
    Object(IF k = "server" THEN "client" ELSE "server", <<Entry(10000, 123456, "good")>>)
createDefaultObject(k) == Object(k, <<Entry(10000, 123456, "good")>>)

Nobody == [program |-> "nobody", port |-> -1, magic |-> -1, at |-> -1]
Link(server, verdict) == [to |-> server, verdict |-> verdict]
NoLink == Link(Nobody, "none")

Init ==
    /\ file \in Beginnings
    /\ pc = [p \in Programs |-> "off"]
    /\ saw = [p \in Programs |-> Absent]
    /\ config = [p \in Programs |-> Absent]
    /\ todo = [p \in Programs |-> {}]
    /\ running = [p \in Programs |-> TRUE]
    /\ entered = [p \in Programs |-> FALSE]
    /\ eof \in BOOLEAN
    /\ listening = {}
    /\ link = [p \in Programs |-> NoLink]
    /\ events = 0
    /\ launches = 0

\* A step of main.
Go(p, from, to) ==
    /\ pc[p] = from
    /\ pc' = [pc EXCEPT ![p] = to]
    /\ UNCHANGED <<running, eof, counts>>

ReadAs(p, isConfig) ==
    LET c == file[kind(p)] IN
    /\ Go(p, "read", IF isConfig THEN "build" ELSE "open")
    /\ saw' = [saw EXCEPT ![p] = c]
    /\ config' = [config EXCEPT ![p] = IF isConfig THEN c ELSE createDefaultObject(kind(p))]
    /\ UNCHANGED <<file, todo, entered, listening, link>>

\* Mutation: an object that does not have the fields is replaced too.
ReadFileStrict(p) ==
    ReadAs(p, IsObject(file[kind(p)]) /\ file[kind(p)].fields = kind(p))
\* readFileJson, and what getData takes for root. Anything that is no object is
\* replaced.
ReadFile(p) == ReadAs(p, IsObject(file[kind(p)]))

\* writeFileJson: std::ofstream empties the file, or cannot open it and throws.
OpenFile(p) ==
    /\ \/ Go(p, "open", "write") /\ file' = [file EXCEPT ![kind(p)] = NoJson]
       \/ Go(p, "open", "denied") /\ UNCHANGED file
    /\ UNCHANGED <<saw, config, todo, entered, listening, link>>

\* The text is written, or lost, which nobody finds out: the disk is full, or
\* the file that was opened has been replaced.
WriteFile(p) ==
    /\ Go(p, "write", "build")
    /\ \/ file' = [file EXCEPT ![kind(p)] = createDefaultObject(kind(p))]
       \/ UNCHANGED file
    /\ UNCHANGED <<saw, config, todo, entered, listening, link>>

-----------------------------------------------------------------------------
(* main of both programs.                                                    *)

\* Without an argument main returns 1.
Launch(p) ==
    /\ pc[p] = "off"
    /\ launches < MaxLaunches
    /\ launches' = launches + 1
    /\ \E to \in {"read", "return"} : pc' = [pc EXCEPT ![p] = to]
    /\ UNCHANGED <<file, saw, config, todo, running, entered, eof, listening, link, events>>

\* Mutation: the first of two entries for a port is kept.
ServersOfFirst(c) ==
    {i \in DOMAIN c.entries :
        \A j \in DOMAIN c.entries : c.entries[j].port = c.entries[i].port => i <= j}
\* The entries that have a server in the map servers: servers[port] = server
\* leaves the last entry for a port.
ServersOf(c) ==
    {i \in DOMAIN c.entries :
        \A j \in DOMAIN c.entries : c.entries[j].port = c.entries[i].port => j <= i}

\* The structure getData asks for, and the conversions of main.
Usable(p, c) ==
    /\ c.fields = kind(p)
    /\ \A i \in DOMAIN c.entries : c.entries[i].detail # "bad"

\* The servers are made, or the client; an exception ends main.
Build(p) ==
    /\ Go(p, "build", IF ~Usable(p, config[p]) THEN "gave_up"
                      ELSE IF p \in Servers THEN "start" ELSE "connect")
    /\ todo' = [todo EXCEPT ![p] = IF p \in Servers THEN ServersOf(config[p]) ELSE {}]
    /\ UNCHANGED <<file, saw, config, entered, listening, link>>

\* boost::asio::ip::tcp::endpoint has 16 bits for the port.
TcpPort(port) == port % 65536
Taken(port) == \E l \in listening : l.at = TcpPort(port)
Own(p) == {l \in listening : l.program = p}

\* The order of the map.
IsNext(p, i) ==
    /\ i \in todo[p]
    /\ \A j \in todo[p] : config[p].entries[i].port <= config[p].entries[j].port

\* allStart. That bind fails is logged, and listen chooses a port of its own (-1).
StartNext(p, i) ==
    /\ IsNext(p, i)
    /\ Go(p, "start", "start")
    /\ todo' = [todo EXCEPT ![p] = @ \ {i}]
    /\ LET e == config[p].entries[i] IN
         listening' = listening \cup
            {[program |-> p, port |-> e.port, magic |-> e.magic,
              at |-> IF Taken(e.port) THEN -1 ELSE TcpPort(e.port)]}
    /\ UNCHANGED <<file, saw, config, entered, link>>

AllStarted(p) ==
    /\ todo[p] = {}
    /\ Go(p, "start", "outer")
    /\ UNCHANGED <<file, saw, config, todo, entered, listening, link>>

\* SegmentClient::start. When nobody listens, onConnect calls stop; a host name
\* makes make_address throw where nobody catches it.
Connect(p) ==
    /\ pc[p] = "connect"
    /\ LET e == Head(config[p].entries) IN
         IF e.detail = "name"
         THEN Go(p, "connect", "killed") /\ UNCHANGED link
         ELSE /\ Go(p, "connect", "inner")
              /\ \/ ~Taken(e.port) /\ link' = [link EXCEPT ![p] = Link(Nobody, "refused")]
                 \/ \E l \in listening : /\ l.at = TcpPort(e.port)
                                          /\ link' = [link EXCEPT ![p] = Link(l, "open")]
    /\ UNCHANGED <<file, saw, config, todo, entered, listening>>

\* running && alIslWork(), or running && client->getIsWork().
GoesOn(p) == running[p] /\ link[p].verdict # "refused"

\* The outer loop of the server. Left at once, it goes past allStop.
OuterHead(p) ==
    /\ Go(p, "outer", IF GoesOn(p) THEN "inner" ELSE "return")
    /\ UNCHANGED <<file, saw, config, todo, entered, listening, link>>

GoOrStop(p, goesOn) ==
    /\ Go(p, "inner", IF goesOn THEN "getline" ELSE "stop")
    /\ todo' = [todo EXCEPT ![p] = IF p \in Servers THEN ServersOf(config[p]) ELSE {}]
    /\ UNCHANGED <<file, saw, config, entered, listening, link>>
\* Mutation: the loop does not look at running.
InnerHeadDeaf(p) == GoOrStop(p, link[p].verdict # "refused")
InnerHead(p) == GoOrStop(p, GoesOn(p))

\* What comes of a line that a client writes: with a magic number of 0 none is
\* set, and what the program uses instead is undefined.
Verdicts(p) ==
    LET mine == Head(config[p].entries).magic
        theirs == link[p].to.magic
    IN  {IF agree THEN "answered" ELSE "rejected" :
            agree \in IF 0 \in {mine, theirs} THEN BOOLEAN ELSE {mine = theirs}}

\* A line other than stop: the operator's commands are those of SegmentServer,
\* and a client writes it to the server, which need not answer. At the end of
\* stdin every line is empty.
OtherLine(p) ==
    /\ Go(p, "getline", "inner")
    /\ entered' = [entered EXCEPT ![p] = TRUE]
    /\ \/ /\ link[p].verdict \in {"open", "answered"}
          /\ \E v \in Verdicts(p) : link' = [link EXCEPT ![p].verdict = v]
       \/ UNCHANGED link
    /\ UNCHANGED <<file, saw, config, todo, listening>>

StopLine(p) ==
    /\ ~eof
    /\ Go(p, "getline", "stop")
    /\ entered' = [entered EXCEPT ![p] = TRUE]
    /\ UNCHANGED <<file, saw, config, todo, listening, link>>

\* Servers stop working, and their connections end.
Silence(gone) ==
    /\ listening' = listening \ gone
    /\ link' = [p \in Programs |->
                  IF link[p].to \in gone THEN Link(Nobody, "lost") ELSE link[p]]

StopThen(p, i, left) ==
    /\ IsNext(p, i)
    /\ Go(p, "stop", "stop")
    /\ Silence({l \in Own(p) : l.port = config[p].entries[i].port})
    /\ todo' = [todo EXCEPT ![p] = left]
    /\ UNCHANGED <<file, saw, config, entered>>
\* Mutation: allStop ends with the first server.
StopFirst(p, i) == StopThen(p, i, {})
\* allStop.
StopNext(p, i) == StopThen(p, i, todo[p] \ {i})

\* The client's stop; both mains return.
AllStopped(p) ==
    /\ todo[p] = {}
    /\ Go(p, "stop", "return")
    /\ link' = [link EXCEPT ![p] = NoLink]
    /\ UNCHANGED <<file, saw, config, todo, entered, listening>>

\* The process ends; whatever it had is gone.
End(p) ==
    /\ pc' = [pc EXCEPT ![p] = "off"]
    /\ saw' = [saw EXCEPT ![p] = Absent]
    /\ config' = [config EXCEPT ![p] = Absent]
    /\ todo' = [todo EXCEPT ![p] = {}]
    /\ running' = [running EXCEPT ![p] = TRUE]
    /\ entered' = [entered EXCEPT ![p] = FALSE]
    /\ listening' = listening \ Own(p)
    /\ link' = [q \in Programs |-> IF q = p THEN NoLink
                  ELSE IF link[q].to \in Own(p) THEN Link(Nobody, "lost") ELSE link[q]]
    /\ UNCHANGED <<file, eof, launches>>

\* After main, the destructors stop the servers that still work.
Exit(p) == pc[p] \in {"return", "gave_up", "denied", "killed"} /\ End(p) /\ UNCHANGED events

-----------------------------------------------------------------------------
(* What happens to the programs.                                             *)

Event == events < MaxEvents /\ events' = events + 1

Crash(p) ==
    /\ pc[p] \notin {"off", "return", "gave_up", "denied", "killed"}
    /\ Event
    /\ End(p)

\* SIGINT or SIGTERM.
Signal(p) ==
    /\ pc[p] # "off"
    /\ running[p]
    /\ Event
    /\ running' = [running EXCEPT ![p] = FALSE]
    /\ UNCHANGED <<file, pc, saw, config, todo, entered, eof, listening, link, launches>>

UserEdits(k, c) ==
    /\ Event
    /\ file' = [file EXCEPT ![k] = c]
    /\ UNCHANGED <<pc, saw, config, todo, running, entered, eof, listening, link, launches>>

\* No program runs.
AllOff ==
    /\ \A p \in Programs : pc[p] = "off"
    /\ UNCHANGED vars

-----------------------------------------------------------------------------
\* What main does without waiting for a line.
Main(p) ==
    \/ ReadFile(p) \/ OpenFile(p) \/ WriteFile(p) \/ Build(p)
    \/ \E i \in todo[p] : StartNext(p, i) \/ StopNext(p, i)
    \/ AllStarted(p) \/ Connect(p) \/ OuterHead(p) \/ InnerHead(p)
    \/ AllStopped(p) \/ Exit(p)

Next ==
    \/ \E p \in Programs :
         Launch(p) \/ Main(p) \/ OtherLine(p) \/ StopLine(p) \/ Signal(p) \/ Crash(p)
    \/ \E k \in Kinds : \E c \in Edits[k] : UserEdits(k, c)
    \/ AllOff

\* main runs, and getline returns once stdin is at its end. Nobody is obliged to
\* type a line.
Fairness ==
    \A p \in Programs : WF_vars(Main(p)) /\ WF_vars(eof /\ OtherLine(p))

Spec == Init /\ [][Next]_vars
FairSpec == Spec /\ Fairness

-----------------------------------------------------------------------------
(* Properties.                                                               *)

\* What the user saves as a JSON object is replaced only by a program that had
\* read something else before: also one without the right fields is kept
\* (configuration_handler.cpp:80-88, 106).
ObjectsAreKept ==
    [][\A k \in Kinds : IsObject(file[k]) /\ file'[k] = NoJson /\ NoJson \notin Edits[k] =>
         \E p \in Programs : kind(p) = k /\ pc[p] = "open" /\ ~IsObject(saw[p])]_vars

\* What the user writes into the file of a kind.
Written(k) == Edits[k] \cup {f[k] : f \in Beginnings}

\* main gives up only because of what the user wrote: never because another
\* program has emptied the file to write it, or was killed before it had
\* (configuration_handler.cpp:31-37).
GivesUpOnlyOnUser ==
    \A p \in Programs : pc[p] = "gave_up" => config[p] \in Written(kind(p))

\* Entry i of a configuration is the last one for its port.
IsLast(c, i) == \A j \in DOMAIN c.entries : c.entries[j].port = c.entries[i].port => j <= i

\* The configuration is what is served. The last entry for a port has a server
\* with its magic number; and a client that is answered has the magic number
\* and the TCP port of such an entry (README.md:404), though bind may have failed
\* and ports may be the same to TCP only.
ServedAsConfigured ==
    /\ \A p \in Servers : pc[p] \in {"outer", "inner", "getline"} =>
         \A i \in DOMAIN config[p].entries : IsLast(config[p], i) =>
            \E l \in Own(p) : /\ l.port = config[p].entries[i].port
                              /\ l.magic = config[p].entries[i].magic
    /\ \A c \in Clients : link[c].verdict = "answered" =>
         LET served == config[link[c].to.program]
             wanted == Head(config[c].entries)
         IN  \E i \in DOMAIN served.entries :
               /\ IsLast(served, i)
               /\ TcpPort(served.entries[i].port) = TcpPort(wanted.port)
               /\ 0 \in {wanted.magic, served.entries[i].magic}
                    \/ served.entries[i].magic = wanted.magic

\* No server works when main has returned, for their accept loops draw ids from a
\* variable of main (server/main.cpp:35-39); unless a signal came before the
\* loop, which then is left without allStop.
ReturnsQuietly ==
    \A p \in Programs : pc[p] = "return" /\ Own(p) # {} => ~running[p] /\ ~entered[p]

\* A program that was signalled ends, once stdin is at its end: wherever it was.
SignalEnds ==
    \A p \in Programs : (pc[p] # "off" /\ ~running[p] /\ eof) ~> pc[p] = "off"
=============================================================================
