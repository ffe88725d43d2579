CONSTANTS
    q1 = q1
    q2 = q2
    i1 = i1
    i2 = i2
    None = None
    Requests <- MCRequests
    Ids <- MCIds
    Calls = 3
    MaxVersion = 3
    Kinds = {"load", "list", "create", "update", "delete", "bulkCreate", "bulkUpdate", "bulkDelete"}
    Faults = {"store", "answer", "lag", "rollback"}
SPECIFICATION MCSpec
INVARIANTS TypeOK CommittedOnly UndisturbedIsFresh ReadYourWrites
SYMMETRY Interchangeable
