\* All operations: two requests at a time over three accounts, with names and passwords
\* they can collide on.
CONSTANTS
    Users = {u1, u2, u3}
    Requests = {r1, r2}
    Fields = {"email", "password"}
    Names = {a, b}
    Ops <- AllOps
SPECIFICATION Spec
SYMMETRY Symmetry
PROPERTIES AdministratorsAreFixed AuthorityOutlivesTheCheck Implements
CHECK_DEADLOCK FALSE
