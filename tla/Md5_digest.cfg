SPECIFICATION Spec
CONSTANTS
    Block = 8
    Byte = 2
    Word = 16
    WordBytes = 2
    MaxInput = 140
    MaxUpdate = 40
INVARIANT TypeOK
INVARIANT DigestOfInput
INVARIANT NothingLost
CHECK_DEADLOCK FALSE
