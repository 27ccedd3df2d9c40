SPECIFICATION Spec
CONSTANTS
    Zvals <- MCZvals
    AsVals <- MCAsVals
    Depth <- MCDepth
    MaxDepth <- MCMaxDepth
    Unserialisable <- MCUnserialisable
    Decimal <- MCDecimal
    LongNames <- MCLongNames
    Digests <- MCDigests
    Records <- MCRecords
    ForeignValues <- MCForeignValues
    PrimaryKeys <- MCPrimaryKeys
INVARIANTS
    PutIsWhole
    RoundTrip
    GetIsWhole
    KeyNamesRecord
