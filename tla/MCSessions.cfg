\* Two browsers and two requests: registrations that overlap, logins, answers
\* that overtake each other or get lost, deletions and restarts.
SPECIFICATION WebSpec
CONSTANTS
    Nil = Nil
    NoMail = NoMail
    Keep = Keep
    Request = {r1, r2}
    Worker = {}
    Name = {ann, bob}
    Email = {NoMail}
    Password = {hers, his}
    At = {}
    Spaced = {}
    TooLong = {}
    MaxId = 3
    CacheActive = FALSE
    HasIdColumn = TRUE
    Int64Id = TRUE
    Faults = {"restart"}
    Exposed <- Handled
    Rows0 <- NoRows
    Serial0 = 0
SYMMETRY Interchangeable
INVARIANTS WebTypeOK SessionsEarned AccountsBounded
PROPERTIES DeletedByName
