SPECIFICATION Spec
CONSTANT Inputs <- MCInputs
INVARIANT WeakVsStrongCorrect
