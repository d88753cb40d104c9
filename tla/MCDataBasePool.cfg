\* Three clients queue for two connections, round trips fail.
SPECIFICATION FairSpec
CONSTANTS
    Nil = Nil
    Table = {"users"}
    Column = {"id", "name"}
    Text = {"a", "b"}
    KeyColumn = "id"
    InitFiles <- OneFile
    Client = {c1, c2, c3}
    MaxConns = 2
    Faulty = TRUE
    Stops = TRUE
    Offered <- Queueing
    Tables0 <- Missing
INVARIANTS NoHoldAndWait
PROPERTIES EveryCallIsAnswered DisconnectReturns
