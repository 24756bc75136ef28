\* A promotion racing a manager's status change.
CONSTANTS
    Users = {u1, u2, u3}
    Requests = {r1, r2}
    Fields = {}
    Names = {}
    Ops <- ManagementOps
SPECIFICATION Spec
SYMMETRY Symmetry
PROPERTY ManagersManageUsers
CHECK_DEADLOCK FALSE
