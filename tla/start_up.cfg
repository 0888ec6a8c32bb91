SPECIFICATION Spec
CONSTANTS
    Server = server
    Tools = {tool}
    Databases <- AllDatabases
    Commands = {"query", "migrate"}
    MaxCommands = 1
    MaxCrashes = 2
    Practices = {}
INVARIANTS TypeOK RecordedIsDone BackfilledOnce ServesTheSchema
PROPERTIES ComesUp
CHECK_DEADLOCK FALSE
