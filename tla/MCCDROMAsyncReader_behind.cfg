CONSTANT Length = 3
CONSTANT Sizes = {2}
CONSTANT Usages <- LateWorkerBadSeek
SPECIFICATION Spec
INVARIANT SeekErrorIsTheResult
