CONSTANTS
    p1 = p1
    p2 = p2
    p3 = p3
    b1 = b1
    b2 = b2
    Process <- MCProcess
    NoProcess = NoProcess
    Body <- MCBody
    Resolve = Resolve
SPECIFICATION Spec
SYMMETRY MCSymmetry
INVARIANTS
    PostsOnceUnlessShared
    SharedOnlyAfterAKill
    SatisfiedIsPosted
CHECK_DEADLOCK FALSE
