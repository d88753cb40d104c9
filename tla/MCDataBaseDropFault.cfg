\* A lost SELECT is taken for an empty table, which is dropped.
SPECIFICATION Spec
CONSTANTS
    Nil = Nil
    Table = {"users"}
    Column = {"id", "name"}
    Text = {"a", "b"}
    KeyColumn = "id"
    InitFiles <- OneFile
    Client = {c1}
    MaxConns = 1
    Faulty = TRUE
    Stops = FALSE
    Offered <- Dropping
    Tables0 <- Empty
PROPERTIES DropsEmptyOnly
