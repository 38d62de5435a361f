\* Both users of a connection, messages around the limit, a stream that ends
\* anywhere.
SPECIFICATION FairSpec
CONSTANTS
    empty = empty  short = short  long = long
    Messages = {empty, short, long}
    Size <- MCSize
    HeaderSize = 2
    MaximumMessageSize = 2
    MaxMessages = 3
    Tearable = {2}
INVARIANTS
    TypeOK
    LaterInOrder
PROPERTIES
    IsChannel
    EventuallyRead
CHECK_DEADLOCK FALSE
