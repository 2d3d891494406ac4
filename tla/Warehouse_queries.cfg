SPECIFICATION Spec
CONSTANTS
    Tables = {"t","u"}
    Threads = {p, q}
    QueryIds = {a}
    Mutable = {"t"}
    OldTables = {"u"}
    OldRows <- OldContent
    Contents <- Uploads
    Statements <- AllStatements
    MaxEvents = 3
    MaxQueries = 2
    MaxEntries = 1
    MaxValue = 3
INVARIANTS CurrentEntriesExact UndisturbedAnswersExact StorageExact
SYMMETRY Symmetric
CHECK_DEADLOCK FALSE
