SPECIFICATION Spec
CONSTANTS
    Table <- Methods
    Unreported = {"changePassword", "close", "get", "getKeyDigest", "put",
                  "query", "remove", "touch"}
    Unfinished = {"apply", "existsMany", "get", "getMany", "getNodes",
                  "listInsertItems", "listMerge", "operate", "operateOrdered",
                  "query", "queryApply", "register", "scanApply"}
    Unchecked = {"apply", "get", "listInsertItems", "listMerge", "operate",
                 "operateOrdered", "query", "queryApply", "register", "scanApply"}
    Leaks <- KnownLeaks
INVARIANTS ErrornoIsStatus OkIsDone RefusedIsUnsent ReleaseInv AllReleased ReportInv
