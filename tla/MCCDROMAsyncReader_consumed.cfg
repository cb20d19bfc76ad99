CONSTANT Length = 3
CONSTANT Sizes = {2}
CONSTANT Usages <- PatientCorePeeks
SPECIFICATION Spec
INVARIANT WaitIsAnswered
