\* Two accounts, two requests at a time.
CONSTANTS
    None = None
    Default = Default
    Users = {u1, u2}
    FileIds = {f1, f2, f3}
    Extensions = {"jpeg", "png"}
    Requests = {r1, r2}
    Times = {t1, t2}
    MaxSaves = 2
SPECIFICATION Spec
SYMMETRY Symmetry
CHECK_DEADLOCK FALSE
INVARIANTS NoDanglingPicture DefaultIntact OwnPicture FilesFollowAccounts
