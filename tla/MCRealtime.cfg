\* One socket with two handlers in flight and one service call.  Nothing couples two
\* sockets, and a second call could only delete the target of the first one.  Every id
\* can be written in two ways.
CONSTANTS
    None = None
    Users = {u1, u2}
    Spellings = {lower, upper}
    Canonical = lower
    Sockets = {s1}
    Handlers = {h1, h2}
    Calls = {c1}
    Events = {"user.read", "user.created", "user.role.updated", "user.status.updated", "user.deleted"}
SPECIFICATION Spec
SYMMETRY Symmetry
CHECK_DEADLOCK FALSE
INVARIANTS WatchFollowsAnswer OwnersAreReached
PROPERTIES NoDuplicates PrivateToOwner WatchersNotified
