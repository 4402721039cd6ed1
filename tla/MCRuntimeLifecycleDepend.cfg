CONSTANT N = 2
SPECIFICATION Spec
INVARIANT DependenciesUp
CHECK_DEADLOCK FALSE
