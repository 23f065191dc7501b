--------------------------- MODULE ProgramsProofs ---------------------------
(***************************************************************************)
(* Proofs about Programs, for any number of programs of either kind, any   *)
(* files and any bounds.                                                   *)
(***************************************************************************)
EXTENDS Programs, TLAPS

Labels == {"off", "read", "open", "write", "build", "gave_up", "denied", "start",
           "connect", "killed", "outer", "inner", "getline", "stop", "return"}
Listeners == [program : Servers, port : Nat, magic : Nat, at : Int]
Links == [to : Listeners \cup {Nobody},
          verdict : {"none", "refused", "open", "answered", "rejected", "lost"}]

\* The types that the proofs need.
Typed ==
    /\ file \in [Kinds -> Contents]
    /\ pc \in [Programs -> Labels]
    /\ saw \in [Programs -> Contents]
    /\ config \in [Programs -> Contents]
    /\ todo \in [Programs -> SUBSET Nat]
    /\ running \in [Programs -> BOOLEAN]
    /\ entered \in [Programs -> BOOLEAN]
    /\ listening \subseteq Listeners
    /\ link \in [Programs -> Links]

\* A file holds what the user wrote, what a program wrote, or what a program
\* left that has emptied it.
FileInv == \A k \in Kinds : file[k] \in Written(k) \cup {NoJson, createDefaultObject(k)}

\* The labels of a program that has its configuration.
Configured == {"start", "connect", "outer", "inner", "getline", "stop"}

\* What p has read.
ReadInv(p) ==
    /\ pc[p] \in {"open", "write"} => ~IsObject(saw[p])
    /\ pc[p] \in {"open", "write", "build", "gave_up"} =>
         config[p] \in Written(kind(p)) \cup {createDefaultObject(kind(p))}
    /\ pc[p] = "gave_up" => ~Usable(p, config[p])
    /\ pc[p] \in Configured => Usable(p, config[p])
    /\ pc[p] \in {"start", "outer"} => p \in Servers
    /\ pc[p] \in {"connect", "killed"} => p \in Clients

\* Listener l is the server of entry i of c.
Serves(l, c, i) == l.port = c.entries[i].port /\ l.magic = c.entries[i].magic

\* The listeners of server program p, its map and what it has still to start or
\* to stop.
ServerInv(p) ==
    /\ link[p] = NoLink
    /\ pc[p] \notin {"start", "outer", "inner", "getline", "stop", "return"} => Own(p) = {}
    /\ entered[p] => pc[p] \in {"inner", "getline", "stop", "return"}
    /\ \A l \in Own(p) : \E i \in ServersOf(config[p]) : Serves(l, config[p], i)
    /\ \A l \in Own(p) : l.at \in {-1, TcpPort(l.port)}
    /\ pc[p] = "start" =>
         /\ todo[p] \subseteq ServersOf(config[p])
         /\ \A i \in ServersOf(config[p]) \ todo[p] : \E l \in Own(p) : Serves(l, config[p], i)
    /\ pc[p] \in {"outer", "inner", "getline"} =>
         \A i \in ServersOf(config[p]) : \E l \in Own(p) : Serves(l, config[p], i)
    /\ pc[p] = "getline" => todo[p] = ServersOf(config[p])
    /\ pc[p] = "stop" => \A l \in Own(p) : \E i \in todo[p] : l.port = config[p].entries[i].port
    /\ pc[p] = "return" /\ Own(p) # {} => ~running[p] /\ ~entered[p]

\* The connection of client p.
ClientInv(p) ==
    link[p].verdict \in {"open", "answered"} =>
        /\ pc[p] \in {"inner", "getline", "stop"}
        /\ link[p].to \in listening
        /\ link[p].to.at = TcpPort(Head(config[p].entries).port)
        /\ link[p].verdict = "answered" =>
             \/ 0 \in {Head(config[p].entries).magic, link[p].to.magic}
             \/ Head(config[p].entries).magic = link[p].to.magic

\* The inductive invariant.
IInv ==
    /\ Typed
    /\ FileInv
    /\ \A p \in Programs : ReadInv(p)
    /\ \A p \in Servers : ServerInv(p)
    /\ \A p \in Clients : ClientInv(p)

-----------------------------------------------------------------------------
\* The default configurations, and an emptied file, are contents of a file.
LEMMA OwnContents ==
    /\ \A k \in Kinds : createDefaultObject(k) \in Contents
    /\ {Absent, NoJson} \subseteq Contents
    /\ \A p \in Programs : kind(p) \in Kinds /\ Usable(p, createDefaultObject(kind(p)))
    /\ ~IsObject(NoJson)
  BY DEF createDefaultObject, Object, Entry, Contents, Entries, Absent, NoJson, Other, Kinds,
     kind, Usable, IsObject

LEMMA InitIInv == Init => IInv
<1> SUFFICES ASSUME Init PROVE IInv
  OBVIOUS
<1> USE OwnContents, ProgramsAssumption DEF Init
<1>1. Typed
  BY FilesAssumption DEF Typed, Labels, NoLink, Link, Links
<1>2. FileInv
  BY FilesAssumption DEF FileInv, Written
<1>3. ASSUME NEW p \in Programs PROVE ReadInv(p)
  BY <1>3 DEF ReadInv, Configured
<1>4. ASSUME NEW p \in Servers PROVE ServerInv(p)
  BY <1>4 DEF ServerInv, Own, Programs
<1>5. ASSUME NEW p \in Clients PROVE ClientInv(p)
  BY <1>5 DEF ClientInv, NoLink, Link, Programs
<1> QED
  BY <1>1, <1>2, <1>3, <1>4, <1>5 DEF IInv

\* A step of p that leaves the listeners, the links and the other programs.
Private(p) ==
    /\ UNCHANGED <<listening, link>>
    /\ \A q \in Programs \ {p} :
         UNCHANGED <<pc[q], saw[q], config[q], todo[q], running[q], entered[q]>>

\* Such a step can disturb the invariant of p only.
LEMMA OthersKeep ==
    ASSUME IInv, NEW p \in Programs, Private(p), Typed', FileInv', ReadInv(p)',
           p \in Servers => ServerInv(p)', p \in Clients => ClientInv(p)'
    PROVE  IInv'
<1> USE DEF IInv, Private
<1>1. ASSUME NEW q \in Programs, q # p PROVE ReadInv(q)'
  BY <1>1 DEF ReadInv
<1>2. ASSUME NEW q \in Servers, q # p PROVE ServerInv(q)'
  BY <1>2 DEF ServerInv, Own, Programs
<1>3. ASSUME NEW q \in Clients, q # p PROVE ClientInv(q)'
  BY <1>3 DEF ClientInv, Programs
<1> QED
  BY <1>1, <1>2, <1>3

\* getData: the file is read and, if it is no object, written.
LEMMA GetDataStep ==
    ASSUME IInv, NEW p \in Programs, ReadFile(p) \/ OpenFile(p) \/ WriteFile(p)
    PROVE  IInv'
<1> USE OwnContents DEF IInv
<1>0. kind(p) \in Kinds
  OBVIOUS
<1>1. Private(p)
  BY DEF ReadFile, ReadAs, OpenFile, WriteFile, Go, Private, Typed
<1>2. Typed'
  BY <1>0 DEF ReadFile, ReadAs, OpenFile, WriteFile, Go, Typed, Labels
<1>3. FileInv'
  BY <1>0 DEF ReadFile, ReadAs, OpenFile, WriteFile, FileInv, Typed
<1>4. ReadInv(p)'
  <2>1. CASE ReadFile(p)
    <3>1. pc'[p] \in {"build", "open"} /\ saw'[p] = file[kind(p)]
      BY <2>1 DEF ReadFile, ReadAs, Go, Typed
    <3>2. pc'[p] = "open" => ~IsObject(saw'[p])
      BY <2>1 DEF ReadFile, ReadAs, Go, Typed
    <3>3. config'[p] \in Written(kind(p)) \cup {createDefaultObject(kind(p))}
      BY <2>1, <1>0 DEF ReadFile, ReadAs, Typed, FileInv
    <3> QED
      BY <3>1, <3>2, <3>3 DEF ReadInv, Configured
  <2>2. CASE OpenFile(p) \/ WriteFile(p)
    BY <2>2 DEF OpenFile, WriteFile, Go, ReadInv, Configured, Typed
  <2> QED
    BY <2>1, <2>2
<1>5. p \in Servers => ServerInv(p)'
  BY DEF ReadFile, ReadAs, OpenFile, WriteFile, Go, ServerInv, Own, Typed, Programs
<1>6. p \in Clients => ClientInv(p)'
  BY DEF ReadFile, ReadAs, OpenFile, WriteFile, Go, ClientInv, Typed, Programs
<1> QED
  BY <1>1, <1>2, <1>3, <1>4, <1>5, <1>6, OthersKeep

\* The map of servers of a configuration, by number of the entry.
LEMMA EntryNumbers ==
    ASSUME NEW c \in Contents
    PROVE  ServersOf(c) \in SUBSET Nat
  BY DEF ServersOf, Contents

\* The steps between getData and the end that neither start nor stop a server.
LEMMA LoopStep ==
    ASSUME IInv, NEW p \in Programs,
           \/ Build(p) \/ AllStarted(p) \/ OuterHead(p) \/ InnerHead(p) \/ StopLine(p)
    PROVE  IInv'
<1> USE DEF IInv
<1>1. Private(p)
  BY DEF Build, AllStarted, OuterHead, InnerHead, GoOrStop, StopLine, Go, Private, Typed
<1>2. Typed'
  <2>1. ServersOf(config[p]) \in SUBSET Nat
    BY EntryNumbers DEF Typed
  <2> QED
    BY <2>1 DEF Build, AllStarted, OuterHead, InnerHead, GoOrStop, StopLine, Go, Typed, Labels
<1>3. FileInv'
  BY DEF Build, AllStarted, OuterHead, InnerHead, GoOrStop, StopLine, FileInv
<1>4. ReadInv(p)'
  <2>1. CASE Build(p)
    <3>1. CASE ~Usable(p, config[p])
      <4>1. pc[p] = "build" /\ pc'[p] = "gave_up" /\ config' = config
        BY <2>1, <3>1 DEF Build, Go, Typed
      <4>2. (~Usable(p, config[p]))'
        BY <3>1, <4>1 DEF Usable
      <4>3. config[p] \in Written(kind(p)) \cup {createDefaultObject(kind(p))}
        BY <4>1 DEF ReadInv
      <4> QED
        BY <4>1, <4>2, <4>3 DEF ReadInv, Configured
    <3>2. CASE Usable(p, config[p])
      <4>1. config' = config
        BY <2>1 DEF Build
      <4>2. pc'[p] = IF p \in Servers THEN "start" ELSE "connect"
        BY <2>1, <3>2 DEF Build, Go, Typed
      <4>3. pc'[p] \in {"start", "connect"} /\ Usable(p, config[p])'
        BY <3>2, <4>1, <4>2 DEF Usable
      <4>4. /\ pc'[p] = "start" => p \in Servers
            /\ pc'[p] = "connect" => p \in Clients
        BY <4>2 DEF Programs
      <4> QED
        BY <4>3, <4>4 DEF ReadInv
    <3> QED
      BY <3>1, <3>2
  <2>2. CASE ~Build(p)
    BY <2>2 DEF AllStarted, OuterHead, InnerHead, GoOrStop, StopLine, Go, ReadInv, Configured,
       Typed, Usable
  <2> QED
    BY <2>1, <2>2
<1>5. ASSUME p \in Servers PROVE ServerInv(p)'
  <2> USE <1>5 DEF Own
  <2>0. link[p].verdict = "none"
    BY DEF ServerInv, NoLink, Link
  <2>1. CASE Build(p)
    BY <2>1 DEF Build, Go, ServerInv, Typed
  <2>2. CASE AllStarted(p)
    <3>1. /\ pc[p] = "start" /\ pc'[p] = "outer" /\ todo[p] = {}
          /\ UNCHANGED <<config, todo, running, entered, listening, link>>
      BY <2>2 DEF AllStarted, Go, Typed
    <3> QED
      BY <3>1 DEF ServerInv, Serves, ServersOf
  <2>3. CASE OuterHead(p)
    BY <2>0, <2>3 DEF OuterHead, GoesOn, Go, ServerInv, Typed
  <2>4. CASE InnerHead(p)
    <3>1. /\ pc[p] = "inner" /\ pc'[p] \in {"getline", "stop"}
          /\ todo'[p] = ServersOf(config[p])
          /\ UNCHANGED <<config, running, entered, listening, link>>
      BY <2>4 DEF InnerHead, GoOrStop, Go, Typed
    <3>2. todo'[p] = ServersOf(config'[p])
      BY <3>1
    <3>3. \A l \in Own(p) : \E i \in ServersOf(config[p]) : Serves(l, config[p], i)
      BY DEF ServerInv
    <3>4. \A l \in Own(p)' : \E i \in todo'[p] : l.port = config'[p].entries[i].port
      BY <3>1, <3>3 DEF Serves
    <3> QED
      BY <3>1, <3>2, <3>4 DEF ServerInv
  <2>5. CASE StopLine(p)
    BY <2>5 DEF StopLine, Go, ServerInv, Serves, Typed
  <2> QED
    BY <2>1, <2>2, <2>3, <2>4, <2>5
<1>6. ASSUME p \in Clients PROVE ClientInv(p)'
  BY <1>6, ProgramsAssumption
     DEF Build, AllStarted, OuterHead, InnerHead, GoOrStop, StopLine, Go, ClientInv, ReadInv, Typed
<1> QED
  BY <1>1, <1>2, <1>3, <1>4, <1>5, <1>6, OthersKeep

\* What happens outside: a launch, a signal, an edit.
LEMMA OutsideStep ==
    ASSUME IInv,
           \/ \E p \in Programs : Launch(p) \/ Signal(p)
           \/ \E k \in Kinds : \E c \in Edits[k] : UserEdits(k, c)
    PROVE  IInv'
<1> USE DEF IInv
<1>1. ASSUME NEW p \in Programs, Launch(p) \/ Signal(p) PROVE IInv'
  <2>1. Private(p)
    BY <1>1 DEF Launch, Signal, Private, Typed
  <2>2. Typed' /\ FileInv'
    BY <1>1 DEF Launch, Signal, Typed, Labels, FileInv
  <2>3. ReadInv(p)'
    BY <1>1 DEF Launch, Signal, ReadInv, Configured, Typed, Usable
  <2>4. p \in Servers => ServerInv(p)'
    <3>1. CASE Launch(p)
      <4>1. /\ pc[p] = "off" /\ pc'[p] \in {"read", "return"}
            /\ UNCHANGED <<entered, listening, link>>
        BY <3>1 DEF Launch, Typed
      <4> QED
        BY <4>1 DEF ServerInv, Own
    <3>2. CASE Signal(p)
      <4>1. /\ ~running'[p]
            /\ UNCHANGED <<pc, config, todo, entered, listening, link>>
        BY <3>2 DEF Signal, Typed
      <4> QED
        BY <4>1 DEF ServerInv, Own, Serves
    <3> QED
      BY <1>1, <3>1, <3>2
  <2>5. p \in Clients => ClientInv(p)'
    BY <1>1 DEF Launch, Signal, ClientInv, Typed
  <2> QED
    BY <2>1, <2>2, <2>3, <2>4, <2>5, OthersKeep
<1>2. ASSUME NEW k \in Kinds, NEW c \in Edits[k], UserEdits(k, c) PROVE IInv'
  <2>1. c \in Contents /\ c \in Written(k)
    BY FilesAssumption DEF Written
  <2>2. Typed' /\ FileInv'
    BY <1>2, <2>1 DEF UserEdits, Typed, FileInv
  <2>3. UNCHANGED <<pc, saw, config, todo, running, entered, listening, link>>
    BY <1>2 DEF UserEdits
  <2>4. ASSUME NEW p \in Programs PROVE ReadInv(p)'
    BY <2>3, <2>4 DEF ReadInv, Usable
  <2>5. ASSUME NEW p \in Servers PROVE ServerInv(p)'
    BY <2>3, <2>5 DEF ServerInv, Own
  <2>6. ASSUME NEW p \in Clients PROVE ClientInv(p)'
    BY <2>3, <2>6 DEF ClientInv
  <2> QED
    BY <2>2, <2>4, <2>5, <2>6
<1> QED
  BY <1>1, <1>2

-----------------------------------------------------------------------------
\* allStart: one more server works.
LEMMA StartStep ==
    ASSUME IInv, NEW p \in Programs, NEW i \in todo[p], StartNext(p, i)
    PROVE  IInv'
<1> USE DEF IInv
<1> DEFINE e == config[p].entries[i]
           new == [program |-> p, port |-> e.port, magic |-> e.magic,
                   at |-> IF Taken(e.port) THEN -1 ELSE TcpPort(e.port)]
<1>1. /\ pc[p] = "start" /\ UNCHANGED <<file, pc, saw, config, running, entered, link>>
      /\ todo' = [todo EXCEPT ![p] = @ \ {i}]
      /\ listening' = listening \cup {new}
  BY DEF StartNext, Go, Typed
<1>2. p \in Servers
  BY <1>1 DEF ReadInv
<1>3. i \in ServersOf(config[p]) /\ e \in Entries
  <2>1. i \in ServersOf(config[p])
    BY <1>1, <1>2 DEF ServerInv
  <2>2. config[p].entries \in Seq(Entries)
    BY DEF Typed, Contents
  <2> QED
    BY <2>1, <2>2 DEF ServersOf
<1>4. new \in Listeners /\ new.at \in {-1, TcpPort(new.port)} /\ new.program = p
  BY <1>2, <1>3 DEF Entries, Listeners, TcpPort
<1>5. Serves(new, config[p], i)
  BY DEF Serves
<1> HIDE DEF e, new
<1>6. Typed'
  <2>1. todo' \in [Programs -> SUBSET Nat] /\ listening' \subseteq Listeners
    BY <1>1, <1>4 DEF Typed
  <2>2. link' \in [Programs -> Links] /\ file' \in [Kinds -> Contents]
    BY <1>1 DEF Typed
  <2> QED
    BY <1>1, <2>1, <2>2 DEF Typed
<1>7. FileInv'
  BY <1>1 DEF FileInv
<1>8. ASSUME NEW q \in Programs PROVE ReadInv(q)'
  BY <1>1, <1>8 DEF ReadInv
<1>9. ASSUME NEW q \in Servers, q # p PROVE ServerInv(q)'
  <2>1. Own(q)' = Own(q) /\ todo'[q] = todo[q]
    BY <1>1, <1>4, <1>9 DEF Own, Typed, Programs
  <2> QED
    BY <1>1, <2>1, <1>9 DEF ServerInv
<1>10. ServerInv(p)'
  <2>1. Own(p)' = Own(p) \cup {new}
    BY <1>1, <1>4 DEF Own
  <2>2. todo'[p] = todo[p] \ {i}
    BY <1>1 DEF Typed
  <2>3. ServersOf(config'[p]) = ServersOf(config[p])
    BY <1>1
  <2>4. \A l \in Own(p)' : \E j \in ServersOf(config[p]) : Serves(l, config[p], j)
    BY <1>2, <1>3, <1>5, <2>1 DEF ServerInv
  <2>5. \A l \in Own(p)' : l.at \in {-1, TcpPort(l.port)}
    BY <1>2, <1>4, <2>1 DEF ServerInv
  <2>6. /\ todo'[p] \subseteq ServersOf(config[p])
        /\ \A j \in ServersOf(config[p]) \ todo'[p] :
             \E l \in Own(p)' : Serves(l, config[p], j)
    BY <1>1, <1>2, <1>5, <2>1, <2>2 DEF ServerInv
  <2>7. link[p] = NoLink /\ ~entered[p]
    BY <1>1, <1>2 DEF ServerInv
  <2> QED
    BY <1>1, <2>3, <2>4, <2>5, <2>6, <2>7 DEF ServerInv
<1>11. ASSUME NEW c \in Clients PROVE ClientInv(c)'
  BY <1>1, <1>11 DEF ClientInv
<1> QED
  BY <1>6, <1>7, <1>8, <1>9, <1>10, <1>11

\* Only programs of the server have listeners, and nobody has none.
LEMMA Owners ==
    ASSUME Typed, NEW p \in Programs
    PROVE  /\ p \in Clients => Own(p) = {}
           /\ Nobody \notin Own(p)
           /\ \A q \in Programs : q # p => Own(q) \cap Own(p) = {}
  BY ProgramsAssumption DEF Typed, Own, Listeners, Nobody

\* A step of p that ends some of its servers, and their connections.
Ends(p, gone) ==
    /\ gone \subseteq Own(p)
    /\ listening' = listening \ gone
    /\ \A q \in Programs \ {p} :
         /\ link'[q] = IF link[q].to \in gone THEN Link(Nobody, "lost") ELSE link[q]
         /\ UNCHANGED <<pc[q], saw[q], config[q], todo[q], running[q], entered[q]>>

\* Such a step, too, can disturb the invariant of p only.
LEMMA OthersKeepWhenEnding ==
    ASSUME IInv, NEW p \in Programs, NEW gone, Ends(p, gone), Typed', FileInv', ReadInv(p)',
           p \in Servers => ServerInv(p)', p \in Clients => ClientInv(p)'
    PROVE  IInv'
<1> USE DEF IInv, Ends
<1>1. ASSUME NEW q \in Programs, q # p PROVE ReadInv(q)'
  BY <1>1 DEF ReadInv
<1>2. ASSUME NEW q \in Servers, q # p PROVE ServerInv(q)'
  <2>1. q \in Programs \ {p}
    BY <1>2 DEF Programs
  <2>2. Own(q)' = Own(q)
    BY <1>2 DEF Own
  <2>3. link[q] = NoLink /\ NoLink.to = Nobody /\ Nobody \notin gone
    BY <1>2, Owners DEF ServerInv, NoLink, Link
  <2>4. link'[q] = NoLink
    BY <2>1, <2>3
  <2>5. UNCHANGED <<pc[q], saw[q], config[q], todo[q], running[q], entered[q]>>
    BY <2>1
  <2>6. ServerInv(q)
    BY <1>2
  <2> HIDE DEF IInv, Ends
  <2> QED
    BY <2>2, <2>4, <2>5, <2>6 DEF ServerInv
<1>3. ASSUME NEW q \in Clients, q # p PROVE ClientInv(q)'
  <2>1. q \in Programs \ {p}
    BY <1>3 DEF Programs
  <2>2. CASE link[q].to \in gone
    BY <2>1, <2>2 DEF ClientInv, Link
  <2>3. CASE link[q].to \notin gone
    BY <1>3, <2>1, <2>3 DEF ClientInv
  <2> QED
    BY <2>2, <2>3
<1> QED
  BY <1>1, <1>2, <1>3

\* allStop: one server less works.
LEMMA StopStep ==
    ASSUME IInv, NEW p \in Programs, NEW i \in todo[p], StopNext(p, i)
    PROVE  IInv'
<1> USE DEF IInv
<1> DEFINE gone == {l \in Own(p) : l.port = config[p].entries[i].port}
<1>1. /\ pc[p] = "stop" /\ UNCHANGED <<file, pc, saw, config, running, entered>>
      /\ todo' = [todo EXCEPT ![p] = todo[p] \ {i}]
      /\ Silence(gone)
  BY DEF StopNext, StopThen, Go, Typed
<1>2. /\ gone \subseteq Own(p)
      /\ \A l \in Own(p) : l.port = config[p].entries[i].port => l \in gone
  OBVIOUS
<1> HIDE DEF gone
<1>3. Ends(p, gone)
  BY <1>1, <1>2 DEF Ends, Silence, Typed
<1>4. Typed'
  <2>1. listening' \subseteq Listeners /\ todo' \in [Programs -> SUBSET Nat]
    BY <1>1 DEF Silence, Typed
  <2>2. link' \in [Programs -> Links]
    BY <1>1 DEF Silence, Typed, Links, Link
  <2> QED
    BY <1>1, <2>1, <2>2 DEF Typed
<1>5. FileInv' /\ ReadInv(p)'
  BY <1>1 DEF FileInv, ReadInv
<1>6. ASSUME p \in Servers PROVE ServerInv(p)'
  <2>1. Own(p)' = Own(p) \ gone
    BY <1>1 DEF Silence, Own
  <2>2. todo'[p] = todo[p] \ {i}
    BY <1>1 DEF Typed
  <2>3. \A l \in Own(p)' : \E j \in todo'[p] : l.port = config[p].entries[j].port
    BY <1>1, <1>2, <1>6, <2>1, <2>2 DEF ServerInv
  <2>4. link'[p] = NoLink
    <3>1. link[p] = NoLink /\ link[p].to \notin gone
      BY <1>2, <1>6, Owners DEF ServerInv, NoLink, Link
    <3> QED
      BY <1>1, <3>1 DEF Silence
  <2>5. \A l \in Own(p)' : /\ \E j \in ServersOf(config[p]) : Serves(l, config[p], j)
                           /\ l.at \in {-1, TcpPort(l.port)}
    BY <1>6, <2>1 DEF ServerInv
  <2> QED
    BY <1>1, <1>6, <2>3, <2>4, <2>5 DEF ServerInv
<1>7. ASSUME p \in Clients PROVE ClientInv(p)'
  <2>1. gone = {}
    BY <1>2, <1>7, Owners
  <2>2. UNCHANGED <<listening, link[p]>>
    BY <1>1, <2>1 DEF Silence
  <2> QED
    BY <1>1, <1>7, <2>2 DEF ClientInv
<1> QED
  BY <1>3, <1>4, <1>5, <1>6, <1>7, OthersKeepWhenEnding

\* The end of a process.
LEMMA EndStep ==
    ASSUME IInv, NEW p \in Programs, Exit(p) \/ Crash(p)
    PROVE  IInv'
<1> USE DEF IInv
<1>1. End(p)
  BY DEF Exit, Crash
<1>2. Ends(p, Own(p))
  BY <1>1 DEF End, Ends, Typed
<1>3. pc'[p] = "off" /\ entered'[p] = FALSE /\ link'[p] = NoLink /\ Own(p)' = {}
  BY <1>1 DEF End, Typed, Own
<1>4. Typed'
  <2>1. link' \in [Programs -> Links]
    BY <1>1 DEF End, Typed, Links, Link, NoLink
  <2>2. config' \in [Programs -> Contents] /\ saw' \in [Programs -> Contents]
    BY <1>1, OwnContents DEF End, Typed
  <2>3. listening' \subseteq Listeners
    BY <1>1 DEF End, Typed
  <2> QED
    BY <1>1, <2>1, <2>2, <2>3 DEF End, Typed, Labels
<1>5. FileInv' /\ ReadInv(p)'
  BY <1>1, <1>3 DEF End, FileInv, ReadInv, Configured
<1>6. p \in Servers => ServerInv(p)'
  BY <1>3 DEF ServerInv
<1>7. p \in Clients => ClientInv(p)'
  BY <1>3 DEF ClientInv, NoLink, Link
<1> QED
  BY <1>2, <1>4, <1>5, <1>6, <1>7, OthersKeepWhenEnding

\* What a client does with its connection: connect, a line, the end of main.
LEMMA LinkStep ==
    ASSUME IInv, NEW p \in Programs, Connect(p) \/ OtherLine(p) \/ AllStopped(p)
    PROVE  IInv'
<1> USE DEF IInv
<1>1. Ends(p, {})
  BY DEF Connect, OtherLine, AllStopped, Go, Ends, Typed
<1>2. UNCHANGED <<file, saw, config, todo, running, listening>>
  BY DEF Connect, OtherLine, AllStopped, Go
<1>3. pc' \in [Programs -> Labels] /\ entered' \in [Programs -> BOOLEAN]
  BY DEF Connect, OtherLine, AllStopped, Go, Typed, Labels
<1>4. FileInv'
  BY <1>2 DEF FileInv
<1>5. CASE Connect(p)
  <2> DEFINE e == Head(config[p].entries)
  <2>1. pc[p] = "connect" /\ pc'[p] \in {"killed", "inner"} /\ entered' = entered
    BY <1>5 DEF Connect, Go, Typed
  <2>2. p \in Clients /\ p \notin Servers
    BY <2>1, ProgramsAssumption DEF ReadInv
  <2>3. ReadInv(p)'
    BY <1>2, <2>1, <2>2 DEF ReadInv, Configured
  <2>4. CASE link' = link
    <3>1. Typed'
      BY <1>2, <1>3, <2>4 DEF Typed
    <3>2. ClientInv(p)'
      BY <2>1, <2>2, <2>4 DEF ClientInv
    <3> QED
      BY <1>1, <1>4, <2>2, <2>3, <3>1, <3>2, OthersKeepWhenEnding
  <2>5. CASE link' = [link EXCEPT ![p] = Link(Nobody, "refused")]
    <3>1. Typed'
      BY <1>2, <1>3, <2>5 DEF Typed, Link, Links
    <3>2. ClientInv(p)'
      BY <2>5 DEF ClientInv, Link, Typed
    <3> QED
      BY <1>1, <1>4, <2>2, <2>3, <3>1, <3>2, OthersKeepWhenEnding
  <2>6. ASSUME NEW l \in listening, l.at = TcpPort(e.port), pc'[p] = "inner",
               link' = [link EXCEPT ![p] = Link(l, "open")]
        PROVE  IInv'
    <3>1. Typed'
      BY <1>2, <1>3, <2>6 DEF Typed, Link, Links
    <3>2. link'[p] = Link(l, "open")
      BY <2>6 DEF Typed
    <3>3. ClientInv(p)'
      BY <1>2, <2>6, <3>2 DEF ClientInv, Link
    <3> QED
      BY <1>1, <1>4, <2>2, <2>3, <3>1, <3>3, OthersKeepWhenEnding
  <2>7. CASE e.detail = "name"
    BY <1>5, <2>4, <2>7 DEF Connect
  <2>8. CASE e.detail # "name"
    <3>1. pc'[p] = "inner"
      BY <1>5, <2>8 DEF Connect, Go, Typed
    <3> QED
      BY <1>5, <2>5, <2>6, <2>8, <3>1 DEF Connect
  <2> QED
    BY <2>7, <2>8
<1>6. CASE OtherLine(p)
  <2>1. pc[p] = "getline" /\ pc'[p] = "inner"
    BY <1>6 DEF OtherLine, Go, Typed
  <2>2. ReadInv(p)'
    BY <1>2, <2>1 DEF ReadInv, Configured, Usable
  <2>3. CASE link' = link
    <3>1. Typed'
      BY <1>2, <1>3, <2>3 DEF Typed
    <3>2. p \in Servers => ServerInv(p)'
      BY <1>2, <2>1, <2>3 DEF ServerInv, Own
    <3>3. p \in Clients => ClientInv(p)'
      BY <1>2, <2>1, <2>3 DEF ClientInv
    <3> QED
      BY <1>1, <1>4, <2>2, <3>1, <3>2, <3>3, OthersKeepWhenEnding
  <2>4. ASSUME NEW v \in Verdicts(p), link[p].verdict \in {"open", "answered"},
               link' = [link EXCEPT ![p].verdict = v]
        PROVE  IInv'
    <3>1. p \in Clients /\ p \notin Servers
      BY <2>4, ProgramsAssumption DEF ServerInv, NoLink, Link, Programs
    <3>2. /\ v \in {"answered", "rejected"}
          /\ v = "answered" =>
               \/ 0 \in {Head(config[p].entries).magic, link[p].to.magic}
               \/ Head(config[p].entries).magic = link[p].to.magic
      BY <2>4 DEF Verdicts
    <3>3. link'[p].verdict = v /\ link'[p].to = link[p].to
      BY <2>4 DEF Typed, Links
    <3>4. Typed'
      BY <1>2, <1>3, <2>4, <3>2 DEF Typed, Links
    <3>5. ClientInv(p)'
      BY <1>2, <2>1, <2>4, <3>1, <3>2, <3>3 DEF ClientInv
    <3> QED
      BY <1>1, <1>4, <2>2, <3>1, <3>4, <3>5, OthersKeepWhenEnding
  <2> QED
    BY <1>6, <2>3, <2>4 DEF OtherLine
<1>7. CASE AllStopped(p)
  <2>1. /\ pc[p] = "stop" /\ pc'[p] = "return" /\ todo[p] = {} /\ entered' = entered
        /\ link' = [link EXCEPT ![p] = NoLink] /\ link'[p] = NoLink
    BY <1>7 DEF AllStopped, Go, Typed
  <2>2. Typed'
    BY <1>2, <1>3, <2>1 DEF Typed, Links, Link, NoLink
  <2>3. ReadInv(p)'
    BY <1>2, <2>1 DEF ReadInv, Configured
  <2>4. p \in Servers => ServerInv(p)'
    BY <1>2, <2>1 DEF ServerInv, Own
  <2>5. p \in Clients => ClientInv(p)'
    BY <2>1 DEF ClientInv, NoLink, Link
  <2> QED
    BY <1>1, <1>4, <2>2, <2>3, <2>4, <2>5, OthersKeepWhenEnding
<1> QED
  BY <1>5, <1>6, <1>7

LEMMA NextIInv == IInv /\ [Next]_vars => IInv'
<1> SUFFICES ASSUME IInv, [Next]_vars PROVE IInv'
  OBVIOUS
<1>1. CASE UNCHANGED vars
  <2>1. UNCHANGED <<file, pc, saw, config, todo, running, entered, listening, link>>
    BY <1>1 DEF vars
  <2>2. Typed' /\ FileInv'
    BY <2>1 DEF IInv, Typed, FileInv
  <2>3. ASSUME NEW p \in Programs PROVE ReadInv(p)'
    BY <2>1, <2>3 DEF IInv, ReadInv
  <2>4. ASSUME NEW p \in Servers PROVE ServerInv(p)'
    BY <2>1, <2>4 DEF IInv, ServerInv, Own
  <2>5. ASSUME NEW p \in Clients PROVE ClientInv(p)'
    BY <2>1, <2>5 DEF IInv, ClientInv
  <2> QED
    BY <2>2, <2>3, <2>4, <2>5 DEF IInv
<1>2. ASSUME NEW p \in Programs, Main(p) PROVE IInv'
  BY <1>2, GetDataStep, LoopStep, StartStep, StopStep, LinkStep, EndStep DEF Main
<1>3. ASSUME NEW p \in Programs, OtherLine(p) \/ StopLine(p) \/ Crash(p) PROVE IInv'
  BY <1>3, LinkStep, LoopStep, EndStep
<1> QED
  BY <1>1, <1>2, <1>3, OutsideStep DEF Next, AllOff

\* The inductive invariant holds.
THEOREM Invariance == Spec => []IInv
  BY InitIInv, NextIInv, PTL DEF Spec

-----------------------------------------------------------------------------
\* main of either program gives up only because of what the user wrote into its
\* file, however many programs read, empty and write that file: the default that
\* another one is writing can always be used, and a file that is found empty is
\* replaced (configuration_handler.cpp:72-111).
THEOREM OnlyOnUser == Spec => []GivesUpOnlyOnUser
<1>1. IInv => GivesUpOnlyOnUser
  BY OwnContents DEF IInv, ReadInv, GivesUpOnlyOnUser
<1> QED
  BY <1>1, Invariance, PTL

\* When main of the server returns, no server of it works, unless a signal has
\* come before the first look at running (server/main.cpp:126, 191).
THEOREM Quiet == Spec => []ReturnsQuietly
<1>1. ASSUME IInv PROVE ReturnsQuietly
  <2>1. ASSUME NEW p \in Clients PROVE Own(p) = {}
    BY <1>1, <2>1, Owners DEF IInv, Programs
  <2> QED
    BY <1>1, <2>1 DEF IInv, ServerInv, ReturnsQuietly, Programs
<1> QED
  BY <1>1, Invariance, PTL

\* What is configured is what is served, for any configurations of any number of
\* programs: whoever wins the bind, whichever ports are the same to TCP.
THEOREM AsConfigured == Spec => []ServedAsConfigured
<1>1. ASSUME IInv PROVE ServedAsConfigured
  <2> USE <1>1 DEF IInv
  <2>1. ASSUME NEW p \in Servers, pc[p] \in {"outer", "inner", "getline"},
               NEW i \in DOMAIN config[p].entries, IsLast(config[p], i)
        PROVE  \E l \in Own(p) : /\ l.port = config[p].entries[i].port
                                 /\ l.magic = config[p].entries[i].magic
    <3>1. i \in ServersOf(config[p])
      BY <2>1 DEF ServersOf, IsLast
    <3> QED
      BY <2>1, <3>1 DEF ServerInv, Serves
  <2>2. ASSUME NEW c \in Clients, link[c].verdict = "answered"
        PROVE  LET served == config[link[c].to.program]
                   wanted == Head(config[c].entries)
               IN  \E i \in DOMAIN served.entries :
                     /\ IsLast(served, i)
                     /\ TcpPort(served.entries[i].port) = TcpPort(wanted.port)
                     /\ 0 \in {wanted.magic, served.entries[i].magic}
                          \/ served.entries[i].magic = wanted.magic
    <3> DEFINE l == link[c].to
               served == config[l.program]
               wanted == Head(config[c].entries)
    <3>1. /\ l \in listening /\ l.at = TcpPort(wanted.port)
          /\ 0 \in {wanted.magic, l.magic} \/ wanted.magic = l.magic
      BY <2>2 DEF ClientInv
    <3>2. l.program \in Servers /\ l \in Own(l.program)
      BY <3>1 DEF Typed, Listeners, Own
    <3>3. PICK i \in ServersOf(served) : Serves(l, served, i)
      BY <3>2 DEF ServerInv
    <3>4. i \in DOMAIN served.entries /\ IsLast(served, i)
      BY <3>3 DEF ServersOf, IsLast
    <3>5. l.at \in {-1, TcpPort(l.port)}
      BY <3>2 DEF ServerInv
    <3>6. TcpPort(wanted.port) \in Nat
      <4>1. c \in Programs /\ pc[c] \in Configured
        BY <2>2 DEF ClientInv, Programs, Configured
      <4>2. Usable(c, config[c]) /\ kind(c) = "client"
        BY <4>1, ProgramsAssumption DEF ReadInv, kind
      <4>3. config[c] \in Contents /\ config[c].entries # <<>>
        BY <4>1, <4>2 DEF Typed, Usable, Contents
      <4>4. wanted \in Entries
        BY <4>3 DEF Contents
      <4> QED
        BY <4>4 DEF Entries, TcpPort
    <3>7. l.at = TcpPort(l.port)
      BY <3>1, <3>5, <3>6
    <3> QED
      BY <3>1, <3>3, <3>4, <3>7 DEF Serves
  <2> QED
    BY <2>1, <2>2 DEF ServedAsConfigured
<1> QED
  BY <1>1, Invariance, PTL

\* A file that holds a JSON object is emptied only by a program that has read
\* something else: two programs that repair one file at a time, or a user who
\* saves meanwhile, can lose a file no other way (configuration_handler.cpp:80-88).
THEOREM KeptObjects == Spec => ObjectsAreKept
<1> DEFINE Kept ==
      \A k \in Kinds : IsObject(file[k]) /\ file'[k] = NoJson /\ NoJson \notin Edits[k] =>
        \E p \in Programs : kind(p) = k /\ pc[p] = "open" /\ ~IsObject(saw[p])
<1>1. ASSUME IInv, [Next]_vars, NEW k \in Kinds,
             IsObject(file[k]), file'[k] = NoJson, NoJson \notin Edits[k]
      PROVE  \E p \in Programs : kind(p) = k /\ pc[p] = "open" /\ ~IsObject(saw[p])
  <2>1. file'[k] # file[k]
    BY <1>1, OwnContents
  <2>2. PICK p \in Programs : OpenFile(p) \/ WriteFile(p)
    <3>1. ~\E l \in Kinds : \E c \in Edits[l] : UserEdits(l, c)
      BY <1>1, <2>1 DEF IInv, Typed, UserEdits
    <3> QED
      BY <1>1, <2>1, <3>1 DEF Next, Main, vars, Launch, ReadFile, ReadAs, Build, StartNext, StopNext,
         StopThen, AllStarted, Connect, OuterHead, InnerHead, GoOrStop, AllStopped, Exit, Crash,
         End, OtherLine, StopLine, Signal, AllOff
  <2>3. kind(p) = k
    BY <1>1, <2>1, <2>2, OwnContents DEF OpenFile, WriteFile, IInv, Typed
  <2>4. ~WriteFile(p)
    <3>1. createDefaultObject(k) # NoJson
      BY DEF createDefaultObject, Object, NoJson, Other
    <3> QED
      BY <1>1, <2>1, <2>3, <3>1 DEF WriteFile, IInv, Typed
  <2>5. pc[p] = "open"
    BY <2>2, <2>4 DEF OpenFile, Go
  <2> QED
    BY <1>1, <2>3, <2>5 DEF IInv, ReadInv
<1>2. IInv /\ [Next]_vars => [Kept]_vars
  BY <1>1
<1> QED
  BY <1>2, Invariance, PTL DEF Spec, ObjectsAreKept
=============================================================================
