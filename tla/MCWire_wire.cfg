SPECIFICATION FairSpec
CONSTANTS
    Ids = {1, 2}
    Methods = {1}
    Contents = {0, 1}
    Errors = {2}
    SizeOf <- MCSizeOf
    HeadSize = 2
    MaxSend = 2
INVARIANT TypeOK
INVARIANT ReceivedAsMeant
INVARIANT NeverStarved
PROPERTY ImplementsChannel
PROPERTY EachArrives
CHECK_DEADLOCK FALSE
