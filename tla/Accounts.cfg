SPECIFICATION Spec
CONSTANTS
    Name = {n1, n2}
    Client = {c1, c2}
    MaxId = 3
    MaxTokens = 2
    MaxChanges = 1
SYMMETRY ClientSymmetry
INVARIANTS UsernamesAreUnique SessionsAreCurrent AccountsRemain
PROPERTIES RejectedStaysRejected
