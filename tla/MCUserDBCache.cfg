\* The cache is on: fills and clears by goroutines that may be overtaken.
SPECIFICATION Spec
CONSTANTS
    ann = ann  bob = bob  mail = mail  post = post
    secret = secret  other = other  long = long
    Nil = Nil
    Request = {r1}
    Worker = {w1, w2}
    Name = {ann, bob}
    Email = {mail}
    Password = {secret}
    At = {mail}
    Spaced = {}
    TooLong = {}
    MaxId = 1
    CacheActive = TRUE
    HasIdColumn = TRUE
    Int64Id = TRUE
    Faults = {"redis"}
    Exposed <- Cacheable
    Rows0 <- OneRow
    Serial0 = 1
SYMMETRY Interchangeable
PROPERTIES RefinesRegistry
