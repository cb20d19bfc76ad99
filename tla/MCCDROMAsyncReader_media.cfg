CONSTANT Length = 3
CONSTANT Sizes = {2}
CONSTANT Usages <- LateWorkerWholeImage
SPECIFICATION Spec
INVARIANT MediaHasOneUser
