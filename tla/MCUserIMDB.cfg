\* Two requests, either of which may register, and two ids.
SPECIFICATION Spec
CONSTANTS
    Nil = Nil
    Request = {r1, r2}
    Name = {ann, bob}
    Password = {hers, his, long}
    TooLong = {long}
    MaxId = 2
SYMMETRY Interchangeable
INVARIANTS TypeOK
PROPERTIES LoginsGranted
