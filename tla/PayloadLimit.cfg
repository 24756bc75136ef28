\* Chunked and declared bodies of up to six bytes under a limit of three.
CONSTANTS
    MaxBytes = 3
    MaxSent = 6
    MaxChunk = 3
SPECIFICATION BodySpec
INVARIANTS WithinLimitUntouched TruncationIsAnswered
PROPERTY OversizedEnds
