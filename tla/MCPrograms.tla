----------------------------- MODULE MCPrograms -----------------------------
EXTENDS Programs

Server(entries) == Object("server", entries)
Client(entries) == Object("client", entries)

\* Two entries for one port and a third that is the same to TCP, with a magic
\* number that is not set.
ThreePorts == Server(<<Entry(10000, 7, "good"), Entry(10000, 123456, "good"),
                       Entry(75536, 0, "good")>>)

\* A client with another magic number, one with a host name, one without a port.
OtherMagic == Client(<<Entry(75536, 7, "good")>>)
HostName   == Client(<<Entry(10000, 0, "name")>>)
NoPort     == Client(<<Entry(10000, 0, "bad")>>)

MCEdits == [server |-> {ThreePorts}, client |-> {OtherMagic}]

MCBeginnings == {[server |-> Absent, client |-> Absent],
                 [server |-> ThreePorts, client |-> HostName],
                 [server |-> NoObject, client |-> NoPort],
                 [server |-> Object("neither", <<>>), client |-> OtherMagic]}
=============================================================================
