SPECIFICATION StoreSpec
CONSTANTS
    NoRow = NoRow
    NoDevice = NoDevice
    Clients = {p1, p2}
    Devices = {d1, d2}
    Serials = {s1, s2}
    Kinds = {"register", "registerConfigured", "update", "touch", "activate", "deactivate", "configure"}
    Faults = TRUE
    MaxCommands = 4
CHECK_DEADLOCK FALSE
INVARIANT TypeOK
INVARIANT RowNeverAhead
INVARIANT AnswersHold
PROPERTY EventsAppendOnly
