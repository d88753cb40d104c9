\* Two requests create the same account: userdb.go:20 says it already exists.
SPECIFICATION Spec
CONSTANTS
    ann = ann  bob = bob  mail = mail  post = post
    secret = secret  other = other  long = long
    Nil = Nil
    Request = {r1, r2}
    Worker = {}
    Name = {ann, bob}
    Email = {mail, post}
    Password = {secret, other, long}
    At = {mail, post}
    Spaced = {bob}
    TooLong = {long}
    MaxId = 3
    CacheActive = FALSE
    HasIdColumn = TRUE
    Int64Id = TRUE
    Faults = {}
    Exposed <- Http
    Rows0 <- NoRows
    Serial0 = 0
INVARIANTS LoginsUnique
