\* One client that saves and loads one character of four bytes.
CONSTANTS
    MaxByte = 1
    CharacterSize = 4
    HeaderSize = 1
    ChunkSize = 3
    MaxKeys = 2
    MaxUploads = 2
    Characters <- MCCharacters
    Garbage <- MCGarbage
    Junk <- MCJunk
    Metas <- MCMetas
SPECIFICATION Spec
INVARIANTS
    IInv
    AcceptedWhenWhole
    ValidateAgreesWithUnpack
    StoredIsSaved
    RepliesAreSaved
CHECK_DEADLOCK FALSE
