SPECIFICATION Spec
CONSTANT Inputs <- MCInputs
INVARIANT GroupsPartitionLeaves
PROPERTY ImplementsMergePass
PROPERTY EveryCallEnds
CHECK_DEADLOCK FALSE
