\* Without multiConnect: three clients that are answered, cut off or end their
\* reader, and an operator who disconnects any id.
SPECIFICATION Spec
CONSTANTS
    MaxId = 4
    MaxStarts = 1
    multiConnect = FALSE
    Inputs = {"request", "incomplete", "no_type"}
    Commands = {"disconnect"}
INVARIANTS
    OneSessionRead
