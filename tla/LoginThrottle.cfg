\* Four logins in flight from one address, with a limit of two.
CONSTANTS
    Requests = {r1, r2, r3, r4}
    Points = 2
    Window = 2
    MaxRefusals = 2
SPECIFICATION Spec
INVARIANTS GraphqlFailuresBounded RestFailuresBounded LockoutEnds
