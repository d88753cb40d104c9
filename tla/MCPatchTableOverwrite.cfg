\* Two handlers register one path: patch.go:82 says it already exists.
SPECIFICATION Spec
CONSTANTS
    Nil = Nil
    Main = main
    Client = {c1, c2}
    Offered <- Plain
    Base = {"a"}
    Host = {"h1"}
    Slow = {"s1"}
    InitFiles <- NoFiles
PROPERTIES NoOverwrite
