\* Programs of a few lines, and every instruction.
CONSTANT Sources <- NearSources
SPECIFICATION Spec
CHECK_DEADLOCK FALSE
INVARIANTS TypeOK DistancesEncoded JumpsLand DecodesAsWritten DataLands
