SPECIFICATION EntrySpec
CONSTANT Vectors <- AllVectors
INVARIANT ReportsException
