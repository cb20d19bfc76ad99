CONSTANT Length = 3
CONSTANT Sizes = {0, 2}
CONSTANT Usages <- SafeUsages
SPECIFICATION FairSpec
INVARIANT TypeOK
INVARIANT ServesTheRequest
INVARIANT MediaHasOneUser
INVARIANT SeekErrorIsTheResult
PROPERTY CallsReturn
