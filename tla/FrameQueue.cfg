CONSTANT Limits = {0, 1, 3}
SPECIFICATION FairSpec
INVARIANT TypeOK
INVARIANT FramesAreCounted
INVARIANT QueueIsBounded
INVARIANT PostsArePaired
INVARIANT WaitIsAnswered
PROPERTY FramesReturn
