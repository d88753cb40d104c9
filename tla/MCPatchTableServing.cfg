\* Handlers register, read and delete; the table starts with three patches.  Every
\* handler may come to wait for a host that never answers: then nothing goes on.
SPECIFICATION FairSpec
CONSTANTS
    Nil = Nil
    Main = main
    Client = {c1, c2}
    Offered <- All
    Base = {"a", "b"}
    Host = {"h1"}
    Slow = {"s1"}
    InitFiles <- Three
INVARIANTS TypeOK DestinationsUsable
PROPERTIES StartsComplete OthersAreAnswered
CHECK_DEADLOCK FALSE
