\* Two requests interleaved, statements that may fail or lose their answer, and
\* a restart at any point.
SPECIFICATION Spec
CONSTANTS
    ann = ann  bob = bob  mail = mail  post = post
    secret = secret  other = other  long = long
    Nil = Nil
    Request = {r1, r2}
    Worker = {}
    Name = {ann, mail}
    Email = {mail}
    Password = {secret, other}
    At = {mail}
    Spaced = {}
    TooLong = {}
    MaxId = 2
    CacheActive = FALSE
    HasIdColumn = TRUE
    Int64Id = TRUE
    Faults = {"statement", "restart"}
    Exposed <- Racing
    Rows0 <- NoRows
    Serial0 = 0
SYMMETRY Interchangeable
INVARIANTS TypeOK
PROPERTIES AuthenticateSound RefinesRegistry
