\* Two programs of the server over one file, a client; two launches of them, two events.
SPECIFICATION FairSpec
CONSTANTS
    Servers = {"s1", "s2"}
    Clients = {"c"}
    Edits <- MCEdits
    Beginnings <- MCBeginnings
    MaxEvents = 2
    MaxLaunches = 2
INVARIANTS
    GivesUpOnlyOnUser
    ServedAsConfigured
    ReturnsQuietly
PROPERTIES
    ObjectsAreKept
    SignalEnds
