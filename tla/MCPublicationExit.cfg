CONSTANTS
    Worktree = {w1, w2}
    File = {f1, f2}
    Data = {f1}
    Repo = {"p", "pair"}
    Visibility <- MCVisibility
    Own = {}
    Written <- MCWritten
    NoWorktree = NoWorktree
    NoFile = NoFile
    MaxEdits = 2
    Push = {p1, p2}
    Branch = {b1, b2}
    Commit = {c1, c2}
    Url = {u1, u2}
    MaxChanges = 2
SPECIFICATION Spec
SYMMETRY Symmetry
INVARIANTS
    ExitTwoChangesNothing
CHECK_DEADLOCK FALSE
