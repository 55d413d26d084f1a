SPECIFICATION WatchedSpec
CONSTANTS
    a1 = a1
    a2 = a2
    n2 = n2
    p1 = p1
    p2 = p2
    e2 = e2
    Accounts = {a1, a2}
    RowOf <- MCRowOf
    Passwords = {p1, p2}
    Escape <- MCEscape
    Blank = blank
    None = none
    Posts = {r1}
    Ops = {"create", "reset", "delete"}
    MaxPosts = 4
    MaxDeaths = 0
CHECK_DEADLOCK FALSE
SYMMETRY MCSymmetry
INVARIANT SavedAgrees
