\* Two clients contend for one table; round trips fail, the process stops.
SPECIFICATION Spec
CONSTANTS
    Nil = Nil
    Table = {"users", "roles"}
    Column = {"id", "name"}
    Text = {"a", "b"}
    KeyColumn = "id"
    InitFiles <- TwoFiles
    Client = {c1, c2}
    MaxConns = 2
    Faulty = TRUE
    Stops = TRUE
    Offered <- Contending
    Tables0 <- Empty
SYMMETRY Interchangeable
INVARIANTS TypeOK
PROPERTIES RefinesAtomicTables
