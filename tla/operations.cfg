SPECIFICATION MCSpec
CONSTANTS
    MaxOps = 2
    Inputs <- MCInputs
    Names = {"b"}
    Values <- MCValues
    Numbers = {1, 2}
    Indexes <- MCIndexes
    Texts = {"point", "region"}
    Written <- MCWritten
INVARIANTS
    OperateInv
    SentAsAsked
    RefusedForCause
    ValuesHaveOneOwner
    PredicatesAsAsked
    PredicateNotDropped
