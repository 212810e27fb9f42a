\* Branches over 30, 31 and 130 instructions.
CONSTANT Sources <- FarSources
SPECIFICATION Spec
CHECK_DEADLOCK FALSE
INVARIANT BranchesLand
