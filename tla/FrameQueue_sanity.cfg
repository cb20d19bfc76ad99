CONSTANT Limits = {1}
SPECIFICATION Spec
INVARIANT WaitBringsIntoRange
