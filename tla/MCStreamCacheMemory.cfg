\* A shared in-memory object: the section is bytes 1 and 2 of four.
CONSTANTS
    kSIZE = 2
    Start = 1
    Size = 2
    FileSize = 4
    BaseIsFile = FALSE
    Byte = {b0, b1}
    Junk = junk
    MaxRequest = 3
SPECIFICATION Spec
INVARIANTS TypeOK CacheCoherent
PROPERTIES WritesStayInSection ImplementsByteStream
