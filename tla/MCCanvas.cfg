SPECIFICATION CanvasSpec
SYMMETRY Symmetric
CONSTANTS
    Clients = {c1, c2, c3}
    Does = {"comment", "save", "show"}
    OperationIds = {o1, o2}
    k1 = k1
    k2 = k2
    t1 = t1
    t2 = t2
    CommentIds = {k1, k2}
    Texts = {t1, t2}
    Files <- SomeFiles
    Asked <- SomeOperations
    n1 = n1
    n2 = n2
    Nodes = {n1, n2}
    Graphs <- SomeGraphs
    Seed = Seed
    NoBase = NoBase
    MaxVersions = 1
    MaxRetries = 1
INVARIANTS
    CommentsAreTheLog
    OperationsCommitOnce
    SeqNamesComments
PROPERTIES
    SavesTouchOnlyTheirNodes
CHECK_DEADLOCK FALSE
